---- MODULE Spec2Model ----
(***************************************************************************)
(* FuelFaaS anomaly engine: the rule library (backend/fraud_rules.py), the *)
(* AnomalyEngine (backend/engine.py), the ingestion endpoint               *)
(* (backend/routers/transactions.py) and the endpoint by which an anomaly  *)
(* is marked as looked at (backend/routers/anomalies.py).                  *)
(*                                                                         *)
(* Data representation                                                     *)
(*   - a datetime is a number of minutes since Monday 00:00 of a           *)
(*     reference week, so hour, time of day, calendar date and weekday are *)
(*     computed from it;                                                   *)
(*   - litres are whole litres, prices are in 1/100 SEK, and the float     *)
(*     comparisons of the rules are stated on scaled integers;             *)
(*   - a coordinate is a position in whole km along one meridian           *)
(*     (longitude 0), so the great-circle distance of two points is the    *)
(*     absolute difference of their positions;                             *)
(*   - a "HH:MM" string is a sequence of one-character strings;            *)
(*   - a reason text is a record [rule, kind] naming the rule and which of *)
(*     its messages was produced.                                          *)
(***************************************************************************)
EXTENDS Integers, Sequences, FiniteSets, TLC

\* ------------------------------------------------------------------------
\* Values of Python's None, one per type it stands in for
\* ------------------------------------------------------------------------
None == "None"
NoneNum == 0 - 1
NoneStr == <<"None">>
NoneObj == [none |-> TRUE]
NoReason == [rule |-> 0, kind |-> "None"]

\* ------------------------------------------------------------------------
\* datetime arithmetic
\* ------------------------------------------------------------------------
DayMinutes == 24 * 60

At(day, hh, mm) == day * DayMinutes + hh * 60 + mm

Hour(t) == (t % DayMinutes) \div 60

TimeOfDay(t) == t % DayMinutes

Date(t) == t \div DayMinutes

Weekday(t) == Date(t) % 7

Abs(x) == IF x < 0 THEN 0 - x ELSE x

Min(a, b) == IF a < b THEN a ELSE b

\* ------------------------------------------------------------------------
\* backend/fraud_rules.py
\* ------------------------------------------------------------------------
haversine(lon1, lat1, lon2, lat2) == Abs(lat2 - lat1)

Digits == <<"0", "1", "2", "3", "4", "5", "6", "7", "8", "9">>

IsDigit(c) == \E i \in 1..10 : Digits[i] = c

DigitVal(c) == (CHOOSE i \in 1..10 : Digits[i] = c) - 1

\* value of a run of one or two digits, NoneNum when it is not one
Number(s) ==
    IF Len(s) = 1 /\ IsDigit(s[1]) THEN DigitVal(s[1])
    ELSE IF Len(s) = 2 /\ IsDigit(s[1]) /\ IsDigit(s[2])
         THEN 10 * DigitVal(s[1]) + DigitVal(s[2])
         ELSE NoneNum

\* datetime.strptime(s, "%H:%M").time() as minutes after midnight;
\* NoneNum stands for the ValueError of a string that does not match
strptime(s) ==
    LET colons == {i \in 1..Len(s) : s[i] = ":"}
    IN  IF Cardinality(colons) # 1 THEN NoneNum
        ELSE LET k == CHOOSE i \in colons : TRUE
                 hh == Number(SubSeq(s, 1, k - 1))
                 mm == Number(SubSeq(s, k + 1, Len(s)))
             IN  IF hh = NoneNum \/ mm = NoneNum \/ hh > 23 \/ mm > 59
                 THEN NoneNum
                 ELSE hh * 60 + mm

Falsy(s) == s = NoneStr \/ s = <<>>

\* variant: the end of the schedule is exclusive
check_out_of_hours_end_exclusive(transaction_time, worker_schedule_start, worker_schedule_end) ==
    IF Falsy(worker_schedule_start) \/ Falsy(worker_schedule_end)
    THEN LET hour == Hour(transaction_time)
         IN  IF hour < 6 \/ hour >= 19
             THEN <<TRUE, [rule |-> 1, kind |-> "standard hours"], 25>>
             ELSE <<FALSE, NoReason, 0>>
    ELSE LET start_time == strptime(worker_schedule_start)
             end_time == strptime(worker_schedule_end)
             current_time == TimeOfDay(transaction_time)
         IN  IF start_time = NoneNum \/ end_time = NoneNum
             THEN <<FALSE, NoReason, 0>>
             ELSE IF ~(start_time <= current_time /\ current_time < end_time)
                  THEN <<TRUE, [rule |-> 1, kind |-> "worker schedule"], 30>>
                  ELSE <<FALSE, NoReason, 0>>

\* variant: a schedule that does not parse falls back to the default window
check_out_of_hours_fallback(transaction_time, worker_schedule_start, worker_schedule_end) ==
    LET hour == Hour(transaction_time)
        default == IF hour < 6 \/ hour >= 19
                   THEN <<TRUE, [rule |-> 1, kind |-> "standard hours"], 25>>
                   ELSE <<FALSE, NoReason, 0>>
    IN  IF Falsy(worker_schedule_start) \/ Falsy(worker_schedule_end)
        THEN default
        ELSE LET start_time == strptime(worker_schedule_start)
                 end_time == strptime(worker_schedule_end)
                 current_time == TimeOfDay(transaction_time)
             IN  IF start_time = NoneNum \/ end_time = NoneNum
                 THEN default
                 ELSE IF ~(start_time <= current_time /\ current_time <= end_time)
                      THEN <<TRUE, [rule |-> 1, kind |-> "worker schedule"], 30>>
                      ELSE <<FALSE, NoReason, 0>>

\* variant: a schedule whose start is later than its end wraps past midnight
check_out_of_hours_wraps(transaction_time, worker_schedule_start, worker_schedule_end) ==
    IF Falsy(worker_schedule_start) \/ Falsy(worker_schedule_end)
    THEN LET hour == Hour(transaction_time)
         IN  IF hour < 6 \/ hour >= 19
             THEN <<TRUE, [rule |-> 1, kind |-> "standard hours"], 25>>
             ELSE <<FALSE, NoReason, 0>>
    ELSE LET start_time == strptime(worker_schedule_start)
             end_time == strptime(worker_schedule_end)
             current_time == TimeOfDay(transaction_time)
             within == IF start_time <= end_time
                       THEN start_time <= current_time /\ current_time <= end_time
                       ELSE start_time <= current_time \/ current_time <= end_time
         IN  IF start_time = NoneNum \/ end_time = NoneNum
             THEN <<FALSE, NoReason, 0>>
             ELSE IF ~within
                  THEN <<TRUE, [rule |-> 1, kind |-> "worker schedule"], 30>>
                  ELSE <<FALSE, NoReason, 0>>

check_out_of_hours(transaction_time, worker_schedule_start, worker_schedule_end) ==
    IF Falsy(worker_schedule_start) \/ Falsy(worker_schedule_end)
    THEN LET hour == Hour(transaction_time)
         IN  IF hour < 6 \/ hour >= 19
             THEN <<TRUE, [rule |-> 1, kind |-> "standard hours"], 25>>
             ELSE <<FALSE, NoReason, 0>>
    ELSE LET start_time == strptime(worker_schedule_start)
             end_time == strptime(worker_schedule_end)
             current_time == TimeOfDay(transaction_time)
         IN  IF start_time = NoneNum \/ end_time = NoneNum
             THEN <<FALSE, NoReason, 0>>
             ELSE IF ~(start_time <= current_time /\ current_time <= end_time)
                  THEN <<TRUE, [rule |-> 1, kind |-> "worker schedule"], 30>>
                  ELSE <<FALSE, NoReason, 0>>

\* variant: a station at exactly radius + buffer is already outside
check_geofence_violation_ge(station_lat, station_lon, project_lat, project_lon, geofence_radius_km, project_name, buffer_km) ==
    IF project_lat = NoneNum \/ project_lon = NoneNum \/ geofence_radius_km = NoneNum
    THEN <<FALSE, NoReason, 0>>
    ELSE LET distance == haversine(station_lon, station_lat, project_lon, project_lat)
             max_allowed == geofence_radius_km + buffer_km
         IN  IF distance >= max_allowed
             THEN <<TRUE, [rule |-> 2, kind |-> "geofence"], 40>>
             ELSE <<FALSE, NoReason, 0>>

check_geofence_violation(station_lat, station_lon, project_lat, project_lon, geofence_radius_km, project_name, buffer_km) ==
    IF project_lat = NoneNum \/ project_lon = NoneNum \/ geofence_radius_km = NoneNum
    THEN <<FALSE, NoReason, 0>>
    ELSE LET distance == haversine(station_lon, station_lat, project_lon, project_lat)
             max_allowed == geofence_radius_km + buffer_km
         IN  IF distance > max_allowed
             THEN <<TRUE, [rule |-> 2, kind |-> "geofence"], 40>>
             ELSE <<FALSE, NoReason, 0>>

\* variant: no tolerance, any fill above the capacity is a violation
check_tank_capacity_violation_no_tolerance(liters, tank_capacity) ==
    IF tank_capacity = NoneNum
    THEN <<FALSE, NoReason, 0>>
    ELSE IF liters * 100 > tank_capacity * 100
         THEN <<TRUE, [rule |-> 3, kind |-> "tank capacity"], 40>>
         ELSE <<FALSE, NoReason, 0>>

\* liters > tank_capacity * 1.05, both sides times 100
check_tank_capacity_violation(liters, tank_capacity) ==
    IF tank_capacity = NoneNum
    THEN <<FALSE, NoReason, 0>>
    ELSE IF liters * 100 > tank_capacity * 105
         THEN <<TRUE, [rule |-> 3, kind |-> "tank capacity"], 40>>
         ELSE <<FALSE, NoReason, 0>>

\* variant: an inactive vehicle is scored as a minor finding
check_vehicle_inactive_minor(vehicle_status) ==
    IF vehicle_status = "inactive"
    THEN <<TRUE, [rule |-> 4, kind |-> "inactive"], 10>>
    ELSE <<FALSE, NoReason, 0>>

check_vehicle_inactive(vehicle_status) ==
    IF vehicle_status = "inactive"
    THEN <<TRUE, [rule |-> 4, kind |-> "inactive"], 25>>
    ELSE <<FALSE, NoReason, 0>>

\* variant: a difference of exactly the threshold also counts
check_double_dipping_le(transaction_time, recent_transactions, threshold_minutes) ==
    IF \E i \in 1..Len(recent_transactions) :
          Abs(transaction_time - recent_transactions[i]) <= threshold_minutes
    THEN <<TRUE, [rule |-> 5, kind |-> "double-dipping"], 35>>
    ELSE <<FALSE, NoReason, 0>>

\* variant: a stored transaction of the very same minute is not counted
check_double_dipping_nonzero(transaction_time, recent_transactions, threshold_minutes) ==
    IF \E i \in 1..Len(recent_transactions) :
          /\ Abs(transaction_time - recent_transactions[i]) > 0
          /\ Abs(transaction_time - recent_transactions[i]) < threshold_minutes
    THEN <<TRUE, [rule |-> 5, kind |-> "double-dipping"], 35>>
    ELSE <<FALSE, NoReason, 0>>

\* variant: only stored transactions that are not later are counted
check_double_dipping_past_only(transaction_time, recent_transactions, threshold_minutes) ==
    IF \E i \in 1..Len(recent_transactions) :
          /\ transaction_time - recent_transactions[i] >= 0
          /\ transaction_time - recent_transactions[i] < threshold_minutes
    THEN <<TRUE, [rule |-> 5, kind |-> "double-dipping"], 35>>
    ELSE <<FALSE, NoReason, 0>>

check_double_dipping(transaction_time, recent_transactions, threshold_minutes) ==
    IF \E i \in 1..Len(recent_transactions) :
          Abs(transaction_time - recent_transactions[i]) < threshold_minutes
    THEN <<TRUE, [rule |-> 5, kind |-> "double-dipping"], 35>>
    ELSE <<FALSE, NoReason, 0>>

DefaultMarketAverage == 1800

\* variant: a deviation of exactly the threshold already counts
check_price_anomaly_ge(price_per_liter, market_average, threshold_percent) ==
    LET average == IF market_average = NoneNum THEN DefaultMarketAverage
                   ELSE market_average
    IN  IF Abs(price_per_liter - average) * 100 >= threshold_percent * average
        THEN IF price_per_liter > average
             THEN <<TRUE, [rule |-> 6, kind |-> "above market"], 20>>
             ELSE <<TRUE, [rule |-> 6, kind |-> "below market"], 30>>
        ELSE <<FALSE, NoReason, 0>>

\* deviation = |price - average| / average * 100 > threshold, times average
check_price_anomaly(price_per_liter, market_average, threshold_percent) ==
    LET average == IF market_average = NoneNum THEN DefaultMarketAverage
                   ELSE market_average
    IN  IF Abs(price_per_liter - average) * 100 > threshold_percent * average
        THEN IF price_per_liter > average
             THEN <<TRUE, [rule |-> 6, kind |-> "above market"], 20>>
             ELSE <<TRUE, [rule |-> 6, kind |-> "below market"], 30>>
        ELSE <<FALSE, NoReason, 0>>

check_transaction_frequency(transaction_date, recent_transaction_dates, max_per_day) ==
    LET same_day_count ==
            Cardinality({i \in 1..Len(recent_transaction_dates) :
                            Date(recent_transaction_dates[i]) = Date(transaction_date)})
    IN  IF same_day_count >= max_per_day
        THEN <<TRUE, [rule |-> 7, kind |-> "excessive fueling"], 30>>
        ELSE <<FALSE, NoReason, 0>>

\* variant: the holidays are looked at before the weekend
check_weekend_holiday_holiday_first(transaction_time, holidays) ==
    IF holidays # <<>> /\ \E i \in 1..Len(holidays) :
                             Date(transaction_time) = Date(holidays[i])
    THEN <<TRUE, [rule |-> 8, kind |-> "holiday"], 25>>
    ELSE IF Weekday(transaction_time) >= 5
         THEN <<TRUE, [rule |-> 8, kind |-> "weekend"], 20>>
         ELSE <<FALSE, NoReason, 0>>

\* holidays is a sequence of datetimes, <<>> for None and for []; the engine
\* passes None
check_weekend_holiday(transaction_time, holidays) ==
    IF Weekday(transaction_time) >= 5
    THEN <<TRUE, [rule |-> 8, kind |-> "weekend"], 20>>
    ELSE IF holidays # <<>> /\ \E i \in 1..Len(holidays) :
                                  Date(transaction_time) = Date(holidays[i])
         THEN <<TRUE, [rule |-> 8, kind |-> "holiday"], 25>>
         ELSE <<FALSE, NoReason, 0>>

\* variant: travelling at exactly the maximum speed already counts
check_consecutive_locations_ge(current_lat, current_lon, current_time, previous_lat, previous_lon, previous_time, max_speed_kmh) ==
    IF previous_lat = NoneNum \/ previous_lon = NoneNum \/ previous_time = NoneNum
    THEN <<FALSE, NoReason, 0>>
    ELSE LET distance_km == haversine(previous_lon, previous_lat, current_lon, current_lat)
             time_diff_minutes == Abs(current_time - previous_time)
         IN  IF time_diff_minutes = 0
             THEN IF distance_km > 1
                  THEN <<TRUE, [rule |-> 9, kind |-> "simultaneous"], 45>>
                  ELSE <<FALSE, NoReason, 0>>
             ELSE IF distance_km * 60 >= max_speed_kmh * time_diff_minutes
                  THEN <<TRUE, [rule |-> 9, kind |-> "impossible travel"], 35>>
                  ELSE <<FALSE, NoReason, 0>>

\* required_speed = distance_km / (minutes / 60) > max_speed_kmh, times minutes
check_consecutive_locations(current_lat, current_lon, current_time, previous_lat, previous_lon, previous_time, max_speed_kmh) ==
    IF previous_lat = NoneNum \/ previous_lon = NoneNum \/ previous_time = NoneNum
    THEN <<FALSE, NoReason, 0>>
    ELSE LET distance_km == haversine(previous_lon, previous_lat, current_lon, current_lat)
             time_diff_minutes == Abs(current_time - previous_time)
         IN  IF time_diff_minutes = 0
             THEN IF distance_km > 1
                  THEN <<TRUE, [rule |-> 9, kind |-> "simultaneous"], 45>>
                  ELSE <<FALSE, NoReason, 0>>
             ELSE IF distance_km * 60 > max_speed_kmh * time_diff_minutes
                  THEN <<TRUE, [rule |-> 9, kind |-> "impossible travel"], 35>>
                  ELSE <<FALSE, NoReason, 0>>

\* ------------------------------------------------------------------------
\* backend/config.py, Settings: business logic defaults
\* ------------------------------------------------------------------------
max_transactions_per_day_per_vehicle == 3
price_anomaly_threshold_percent == 20
double_dip_minutes == 30
geofence_buffer_km == 15
MaxReasonableSpeed == 120

\* ------------------------------------------------------------------------
\* Bounds of the model
\* ------------------------------------------------------------------------
MaxHist == 3
MaxScore == 150
MaxRequests == 4
MaxList == 2

Procs == {"p1", "p2"}

\* errors the database driver can raise from execute()
DbErrors == {"OperationalError", "TimeoutError"}

\* ------------------------------------------------------------------------
\* State
\* ------------------------------------------------------------------------
VARIABLES
    engine,        \* the AnomalyEngine object shared by direct evaluations
    transactions,  \* table "transactions": rows in storage order
    anomalies,     \* table "anomalies": rows in storage order
    vehicles,      \* table "vehicles": vehicle_id -> row
    poolclass,     \* connection pool of the async engine
    task,          \* per request or evaluation: position and local variables
    requests,      \* number of requests received
    errors,        \* number of requests that ended in an error
    raised,        \* per task: the last error the database raised into it
    call           \* last call of a function of the rule library

vars == <<engine, transactions, anomalies, vehicles, poolclass, task, requests, errors, raised, call>>

\* ------------------------------------------------------------------------
\* backend/models.py
\* ------------------------------------------------------------------------
FuelTransaction(id, vehicle, driver, ts, liters, price, lat) ==
    [transaction_id |-> id, vehicle_id |-> vehicle, driver_id |-> driver,
     timestamp |-> ts, liters |-> liters, price_per_liter |-> price,
     station_lat |-> lat, station_lon |-> 0]

\* ------------------------------------------------------------------------
\* Python helpers
\* ------------------------------------------------------------------------
\* dict.get(key)
Get(d, key) == IF key \in DOMAIN d THEN d[key] ELSE NoneObj

EmptyDict == [k \in {} |-> NoneObj]

RECURSIVE SumSeq(_)
SumSeq(s) == IF s = <<>> THEN 0 ELSE Head(s) + SumSeq(Tail(s))

\* ORDER BY timestamp DESC: rows of equal timestamp keep their storage order
RECURSIVE InsertDesc(_, _)
InsertDesc(sorted, row) ==
    IF sorted = <<>> THEN <<row>>
    ELSE IF Head(sorted).timestamp >= row.timestamp
         THEN <<Head(sorted)>> \o InsertDesc(Tail(sorted), row)
         ELSE <<row>> \o sorted

RECURSIVE OrderByTimestampDesc(_)
OrderByTimestampDesc(rows) ==
    IF rows = <<>> THEN <<>>
    ELSE InsertDesc(OrderByTimestampDesc(SubSeq(rows, 1, Len(rows) - 1)),
                    rows[Len(rows)])

\* ------------------------------------------------------------------------
\* Database sessions (backend/database.py)
\* ------------------------------------------------------------------------
\* rows a session's SELECT returns: with StaticPool every session runs on the
\* one shared connection and sees all rows written on it; otherwise a session
\* sees committed rows and its own uncommitted ones
Visible(table, session) ==
    LET Sees(row) == \/ poolclass = "StaticPool"
                     \/ row.session = "committed"
                     \/ row.session = session
    IN  SelectSeq(table, Sees)

\* ------------------------------------------------------------------------
\* backend/engine.py
\* ------------------------------------------------------------------------
AnomalyEngine(vehicles_dict, projects_dict, workers_dict, db_session) ==
    [vehicles |-> vehicles_dict, projects |-> projects_dict,
     workers |-> workers_dict, db_session |-> db_session]

\* result.scalars().all(): the ORM objects of the selected rows
Scalars(rows) ==
    [i \in 1..Len(rows) |->
        FuelTransaction(rows[i].transaction_id, rows[i].vehicle_id, rows[i].driver_id,
                        rows[i].timestamp, rows[i].liters, rows[i].price_per_liter,
                        rows[i].station_lat)]

\* variant: the row of the evaluated transaction is not excluded
get_recent_transactions_with_self(self, visible, vehicle_id, since, exclude_transaction_id) ==
    IF self.db_session = None
    THEN <<>>
    ELSE LET Where(row) ==
                 /\ row.vehicle_id = vehicle_id
                 /\ row.timestamp >= since
         IN  Scalars(OrderByTimestampDesc(SelectSeq(visible, Where)))

\* the rows the query of get_recent_transactions selects, given the rows the
\* session can see; an engine without a session returns [] before querying
get_recent_transactions(self, visible, vehicle_id, since, exclude_transaction_id) ==
    IF self.db_session = None
    THEN <<>>
    ELSE LET Where(row) ==
                 /\ row.vehicle_id = vehicle_id
                 /\ row.timestamp >= since
                 /\ (exclude_transaction_id # None /\ exclude_transaction_id # "")
                        => row.transaction_id # exclude_transaction_id
         IN  Scalars(OrderByTimestampDesc(SelectSeq(visible, Where)))

\* variant: the Critical boundary compared with > instead of >=
calculate_severity_gt71(score) ==
    IF score > 71 THEN "Critical"
    ELSE IF score >= 41 THEN "High"
    ELSE IF score >= 21 THEN "Medium"
    ELSE "Low"

_calculate_severity(score) ==
    IF score >= 71 THEN "Critical"
    ELSE IF score >= 41 THEN "High"
    ELSE IF score >= 21 THEN "Medium"
    ELSE IF score > 0 THEN "Low"
    ELSE "Low"

\* lines 77-86: the related entities
ResolveVehicle(self, transaction) == Get(self.vehicles, transaction.vehicle_id)

ResolveProject(self, vehicle) ==
    IF vehicle # NoneObj /\ vehicle.assigned_to_project # None
    THEN Get(self.projects, vehicle.assigned_to_project)
    ELSE NoneObj

ResolveWorker(self, transaction) ==
    IF transaction.driver_id # None
    THEN Get(self.workers, transaction.driver_id)
    ELSE NoneObj

\* variant: the reason is put in front of the list
Apply_prepend(acc, verdict) ==
    IF verdict[1]
    THEN [reasons |-> <<verdict[2]>> \o acc.reasons, score |-> acc.score + verdict[3]]
    ELSE acc

\* variant: the reason is appended whether or not the rule found a violation
Apply_reason_always(acc, verdict) ==
    [reasons |-> Append(acc.reasons, verdict[2]),
     score |-> acc.score + (IF verdict[1] THEN verdict[3] ELSE 0)]

\* if is_violation: reasons.append(reason); score += rule_score
Apply(acc, verdict) ==
    IF verdict[1]
    THEN [reasons |-> Append(acc.reasons, verdict[2]), score |-> acc.score + verdict[3]]
    ELSE acc

\* lines 88-127: rules 1-4
Rule1(transaction, worker) ==
    check_out_of_hours(transaction.timestamp,
                       IF worker # NoneObj THEN worker.schedule_start ELSE NoneStr,
                       IF worker # NoneObj THEN worker.schedule_end ELSE NoneStr)

Rule2(transaction, project) ==
    check_geofence_violation(transaction.station_lat, transaction.station_lon,
                             IF project # NoneObj THEN project.geofence_lat ELSE NoneNum,
                             IF project # NoneObj THEN project.geofence_lon ELSE NoneNum,
                             IF project # NoneObj THEN project.geofence_radius_km ELSE NoneNum,
                             IF project # NoneObj THEN project.name ELSE None,
                             geofence_buffer_km)

\* variant: an unknown vehicle is given capacity 0 instead of None
Rule3_zero_capacity(transaction, vehicle) ==
    check_tank_capacity_violation(transaction.liters,
                                  IF vehicle # NoneObj THEN vehicle.tank_capacity_liters
                                  ELSE 0)

Rule3(transaction, vehicle) ==
    check_tank_capacity_violation(transaction.liters,
                                  IF vehicle # NoneObj THEN vehicle.tank_capacity_liters
                                  ELSE NoneNum)

Rule4(vehicle) ==
    check_vehicle_inactive(IF vehicle # NoneObj THEN vehicle.status ELSE None)

Rules1to4(self, transaction) ==
    LET vehicle == ResolveVehicle(self, transaction)
        project == ResolveProject(self, vehicle)
        worker == ResolveWorker(self, transaction)
        a0 == [reasons |-> <<>>, score |-> 0]
        a1 == Apply(a0, Rule1(transaction, worker))
        a2 == Apply(a1, Rule2(transaction, project))
        a3 == Apply(a2, Rule3(transaction, vehicle))
    IN  Apply(a3, Rule4(vehicle))

Timestamps(txs) == [i \in 1..Len(txs) |-> txs[i].timestamp]

\* lines 137-158: rules 5 and 6, once the lookback fetch has returned
Rules5to6(acc, transaction, recent_txs) ==
    LET a5 == Apply(acc, check_double_dipping(transaction.timestamp,
                                              Timestamps(recent_txs),
                                              double_dip_minutes))
    IN  Apply(a5, check_price_anomaly(transaction.price_per_liter, NoneNum,
                                      price_anomaly_threshold_percent))

Rule9(transaction, recent_txs) ==
    IF recent_txs # <<>>
    THEN LET latest_tx == recent_txs[1]
         IN  check_consecutive_locations(transaction.station_lat, transaction.station_lon,
                                         transaction.timestamp,
                                         latest_tx.station_lat, latest_tx.station_lon,
                                         latest_tx.timestamp, MaxReasonableSpeed)
    ELSE <<FALSE, NoReason, 0>>

\* variant: the frequency rule runs with its own default of 2 per day
Rules7to9_default_max(acc, transaction, recent_txs, daily_txs) ==
    LET a7 == Apply(acc, check_transaction_frequency(transaction.timestamp,
                                                     Timestamps(daily_txs), 2))
        a8 == Apply(a7, check_weekend_holiday(transaction.timestamp, <<>>))
    IN  Apply(a8, Rule9(transaction, recent_txs))

\* lines 167-201: rules 7, 8 and 9, once the day-scoped fetch has returned
Rules7to9(acc, transaction, recent_txs, daily_txs) ==
    LET a7 == Apply(acc, check_transaction_frequency(transaction.timestamp,
                                                     Timestamps(daily_txs),
                                                     max_transactions_per_day_per_vehicle))
        a8 == Apply(a7, check_weekend_holiday(transaction.timestamp, <<>>))
    IN  Apply(a8, Rule9(transaction, recent_txs))

\* variant: the score is reported without the cap
AnomalyResult_uncapped(transaction, score, reasons) ==
    [transaction_id |-> transaction.transaction_id,
     is_anomalous |-> score > 20,
     severity |-> _calculate_severity(score),
     risk_score |-> score,
     reasons |-> reasons]

\* variant: a total of exactly 20 already counts as anomalous
AnomalyResult_ge20(transaction, score, reasons) ==
    [transaction_id |-> transaction.transaction_id,
     is_anomalous |-> score >= 20,
     severity |-> _calculate_severity(score),
     risk_score |-> Min(score, 100),
     reasons |-> reasons]

\* lines 203-224
AnomalyResult(transaction, score, reasons) ==
    [transaction_id |-> transaction.transaction_id,
     is_anomalous |-> score > 20,
     severity |-> _calculate_severity(score),
     risk_score |-> Min(score, 100),
     reasons |-> reasons]

\* variant: the lookback reaches back to the start of the day
lookback_time_day_start(transaction) == Date(transaction.timestamp) * DayMinutes

lookback_time(transaction) == transaction.timestamp - double_dip_minutes

day_start(transaction) == Date(transaction.timestamp) * DayMinutes

\* ------------------------------------------------------------------------
\* Bounded inputs
\* ------------------------------------------------------------------------
Monday == 0
Friday == 4
Saturday == 5
Sunday == 6

Sched(h1, h2, m1, m2) == <<h1, h2, ":", m1, m2>>

\* a clean weekday-noon purchase; the 03:00 Sunday purchase of the test suite;
\* a weekend purchase by an unknown driver; a cheap early purchase for a
\* vehicle that is in no map
TxPool ==
    { FuelTransaction("T1", "V1", None, At(Friday, 12, 0), 50, 1800, 0),
      FuelTransaction("T2", "V1", "W1", At(Sunday, 3, 0), 250, 2484, 200),
      FuelTransaction("T3", "V1", "W9", At(Saturday, 12, 0), 50, 1800, 0),
      FuelTransaction("T4", "V2", "W1", At(Friday, 7, 0), 105, 1200, 200) }

TransactionDB(transaction, session) ==
    [transaction_id |-> transaction.transaction_id, vehicle_id |-> transaction.vehicle_id,
     driver_id |-> transaction.driver_id, timestamp |-> transaction.timestamp,
     liters |-> transaction.liters, price_per_liter |-> transaction.price_per_liter,
     station_lat |-> transaction.station_lat, station_lon |-> transaction.station_lon,
     session |-> session]

\* stored rows of vehicle V1: two of equal timestamp at different stations ten
\* minutes before T2, one earlier the same day and 400 km from T2, and the row
\* of T2 itself
HistPool ==
    { TransactionDB(FuelTransaction("H1", "V1", None, At(Sunday, 2, 50), 40, 1800, 0), "committed"),
      TransactionDB(FuelTransaction("H2", "V1", None, At(Sunday, 2, 50), 40, 1800, 200), "committed"),
      TransactionDB(FuelTransaction("H3", "V1", None, At(Sunday, 0, 30), 40, 1800, 600), "committed"),
      TransactionDB(FuelTransaction("T2", "V1", "W1", At(Sunday, 3, 0), 250, 2484, 200), "committed") }

Injective(f) == \A i, j \in DOMAIN f : f[i] = f[j] => i = j

Histories == {h \in UNION {[1..n -> HistPool] : n \in 0..MaxHist} : Injective(h)}

VehicleRows ==
    [vehicle_id : {"V1"}, tank_capacity_liters : {100},
     assigned_to_project : {None, "P1", "P2"}, status : {"active", "inactive"}]

VehicleMaps == {EmptyDict} \cup {("V1" :> v) : v \in VehicleRows}

ProjectMaps ==
    {EmptyDict,
     ("P1" :> [project_id |-> "P1", name |-> "Site", geofence_lat |-> 0,
               geofence_lon |-> 0, geofence_radius_km |-> 5])}

WorkerMaps ==
    {EmptyDict,
     ("W1" :> [worker_id |-> "W1", schedule_start |-> Sched("0", "8", "0", "0"),
               schedule_end |-> Sched("1", "7", "0", "0")])}

\* ------------------------------------------------------------------------
\* Tasks: one coroutine each, switching at its awaits
\* ------------------------------------------------------------------------
IdleTask ==
    [pc |-> "idle", caller |-> None, transaction |-> NoneObj, self |-> NoneObj,
     reasons |-> <<>>, score |-> 0, recent_txs |-> <<>>, daily_txs |-> <<>>,
     fetches |-> <<>>, result |-> NoneObj, db_anomaly |-> NoneObj, error |-> None,
     request |-> NoneObj]

\* variant: reasons and score are kept on the engine object, so writing them
\* overwrites those of the evaluations in flight
Set_on_engine(p, t) ==
    [q \in Procs |->
        IF q = p THEN t
        ELSE IF task[q].pc \in {"lookback", "daily"}
             THEN [task[q] EXCEPT !.reasons = t.reasons, !.score = t.score]
             ELSE task[q]]

Set(p, t) == [task EXCEPT ![p] = t]

\* variant: create_transaction stores an anomaly for every result
Return_store_all(t, acc) ==
    LET result == AnomalyResult(t.transaction, acc.score, acc.reasons)
        done == [t EXCEPT !.reasons = acc.reasons, !.score = acc.score, !.result = result]
    IN  IF t.caller = "create_transaction"
        THEN [done EXCEPT !.pc = "commit", !.self = NoneObj, !.recent_txs = <<>>,
                          !.daily_txs = <<>>, !.fetches = <<>>,
                          !.db_anomaly = IF TRUE
                                         THEN [transaction_id |-> result.transaction_id,
                                               is_anomalous |-> result.is_anomalous,
                                               severity |-> result.severity,
                                               risk_score |-> result.risk_score,
                                               reasons |-> result.reasons,
                                               reviewed |-> FALSE,
                                               reviewed_at |-> NoneNum,
                                               review_notes |-> None,
                                               status |-> "pending",
                                               company_id |-> None]
                                         ELSE NoneObj]
        ELSE [done EXCEPT !.pc = "done"]

\* lines 203-224, then the caller's continuation up to its next await:
\* create_transaction (lines 60-72) adds the anomaly and awaits the commit
Return(t, acc) ==
    LET result == AnomalyResult(t.transaction, acc.score, acc.reasons)
        done == [t EXCEPT !.reasons = acc.reasons, !.score = acc.score, !.result = result]
    IN  IF t.caller = "create_transaction"
        THEN [done EXCEPT !.pc = "commit", !.self = NoneObj, !.recent_txs = <<>>,
                          !.daily_txs = <<>>, !.fetches = <<>>,
                          !.db_anomaly = IF result.is_anomalous
                                         THEN [transaction_id |-> result.transaction_id,
                                               is_anomalous |-> result.is_anomalous,
                                               severity |-> result.severity,
                                               risk_score |-> result.risk_score,
                                               reasons |-> result.reasons,
                                               reviewed |-> FALSE,
                                               reviewed_at |-> NoneNum,
                                               review_notes |-> None,
                                               status |-> "pending",
                                               company_id |-> None]
                                         ELSE NoneObj]
        ELSE [done EXCEPT !.pc = "done"]

\* variant: reasons and score are not reset per call, an evaluation that
\* starts while another one is in flight continues from its partial values
Enter_continue(t, self, transaction) ==
    LET inflight == {q \in Procs : task[q].pc \in {"lookback", "daily"}}
        base == IF inflight = {} THEN [reasons |-> <<>>, score |-> 0]
                ELSE LET q == CHOOSE q \in inflight : TRUE
                     IN  [reasons |-> task[q].reasons, score |-> task[q].score]
        own == Rules1to4(self, transaction)
        acc == [reasons |-> base.reasons \o own.reasons, score |-> base.score + own.score]
        t1 == [t EXCEPT !.transaction = transaction, !.self = self,
                        !.reasons = acc.reasons, !.score = acc.score]
    IN  IF self.db_session # None
        THEN [t1 EXCEPT !.pc = "lookback", !.fetches = <<"lookback">>]
        ELSE Return(t1, acc)

\* variant: the rules that need no history (6 and 8) also run without a session
Enter_rules_6_8(t, self, transaction) ==
    LET acc == Rules1to4(self, transaction)
        t1 == [t EXCEPT !.transaction = transaction, !.self = self,
                        !.reasons = acc.reasons, !.score = acc.score]
    IN  IF self.db_session # None
        THEN [t1 EXCEPT !.pc = "lookback", !.fetches = <<"lookback">>]
        ELSE Return(t1, Apply(Apply(acc, check_price_anomaly(transaction.price_per_liter,
                                             NoneNum, price_anomaly_threshold_percent)),
                              check_weekend_holiday(transaction.timestamp, <<>>)))

\* check_transaction up to its first await (lines 74-132)
Enter(t, self, transaction) ==
    LET acc == Rules1to4(self, transaction)
        t1 == [t EXCEPT !.transaction = transaction, !.self = self,
                        !.reasons = acc.reasons, !.score = acc.score]
    IN  IF self.db_session # None
        THEN [t1 EXCEPT !.pc = "lookback", !.fetches = <<"lookback">>]
        ELSE Return(t1, acc)

\* session.rollback() in get_db: on the shared connection of a StaticPool it
\* undoes every uncommitted row
Rollback(table, session) ==
    LET Keeps(row) == /\ row.session # session
                      /\ (poolclass = "StaticPool" => row.session = "committed")
    IN  SelectSeq(table, Keeps)

Commit(table, session) ==
    [i \in 1..Len(table) |->
        IF table[i].session = session \/ poolclass = "StaticPool"
        THEN [table[i] EXCEPT !.session = "committed"]
        ELSE table[i]]

\* the exception leaves check_transaction; under create_transaction get_db
\* rolls the session back
Raise(p, e) ==
    /\ task' = Set(p, [task[p] EXCEPT !.pc = "failed", !.error = e])
    /\ IF task[p].caller = "create_transaction"
       THEN /\ transactions' = Rollback(transactions, p)
            /\ anomalies' = Rollback(anomalies, p)
            /\ errors' = errors + 1
       ELSE UNCHANGED <<transactions, anomalies, errors>>

\* a direct call of engine.check_transaction(transaction)
check_transaction(p, transaction) ==
    /\ task[p].pc = "idle"
    /\ engine # NoneObj
    /\ task' = Set(p, Enter([task[p] EXCEPT !.caller = "test"], engine, transaction))
    /\ UNCHANGED <<engine, transactions, anomalies, vehicles, poolclass, requests, errors, raised, call>>

\* the lookback fetch returns (lines 132-162)
LookbackReturns(p) ==
    /\ task[p].pc = "lookback"
    /\ LET t == task[p]
           recent_txs == get_recent_transactions(t.self,
                             Visible(transactions, t.self.db_session),
                             t.transaction.vehicle_id, lookback_time(t.transaction),
                             t.transaction.transaction_id)
           acc == Rules5to6([reasons |-> t.reasons, score |-> t.score],
                            t.transaction, recent_txs)
       IN  task' = Set(p, [t EXCEPT !.recent_txs = recent_txs, !.reasons = acc.reasons,
                                    !.score = acc.score, !.pc = "daily",
                                    !.fetches = Append(t.fetches, "daily")])
    /\ UNCHANGED <<engine, transactions, anomalies, vehicles, poolclass, requests, errors, raised, call>>

\* variant: a failed lookback fetch is issued once more before giving up
LookbackFails_retry(p, e) ==
    /\ task[p].pc = "lookback"
    /\ raised' = [raised EXCEPT ![p] = e]
    /\ IF Len(task[p].fetches) < 2
       THEN /\ task' = Set(p, [task[p] EXCEPT !.fetches = Append(task[p].fetches, "lookback")])
            /\ UNCHANGED <<transactions, anomalies, errors>>
       ELSE Raise(p, e)
    /\ UNCHANGED <<engine, vehicles, poolclass, requests, call>>

LookbackFails(p, e) ==
    /\ task[p].pc = "lookback"
    /\ raised' = [raised EXCEPT ![p] = e]
    /\ Raise(p, e)
    /\ UNCHANGED <<engine, vehicles, poolclass, requests, call>>

\* the day-scoped fetch returns (lines 167-224)
DailyReturns(p) ==
    /\ task[p].pc = "daily"
    /\ LET t == task[p]
           daily_txs == get_recent_transactions(t.self,
                            Visible(transactions, t.self.db_session),
                            t.transaction.vehicle_id, day_start(t.transaction),
                            t.transaction.transaction_id)
           acc == Rules7to9([reasons |-> t.reasons, score |-> t.score],
                            t.transaction, t.recent_txs, daily_txs)
       IN  task' = Set(p, Return([t EXCEPT !.daily_txs = daily_txs], acc))
    /\ UNCHANGED <<engine, transactions, anomalies, vehicles, poolclass, requests, errors, raised, call>>

DailyFails(p, e) ==
    /\ task[p].pc = "daily"
    /\ raised' = [raised EXCEPT ![p] = e]
    /\ Raise(p, e)
    /\ UNCHANGED <<engine, vehicles, poolclass, requests, call>>

\* ------------------------------------------------------------------------
\* Direct evaluations on one engine over a fixed snapshot
\* ------------------------------------------------------------------------
NoCall == [fn |-> None, args |-> <<>>, ret |-> <<>>]

InitEngine ==
    /\ \E v \in VehicleMaps, pr \in ProjectMaps, w \in WorkerMaps, s \in {None, "s0"} :
          engine = AnomalyEngine(v, pr, w, s)
    /\ transactions \in Histories
    /\ engine.db_session = None => transactions = <<>>
    /\ anomalies = <<>>
    /\ vehicles = EmptyDict
    /\ poolclass = "StaticPool"
    /\ task = [p \in Procs |-> IdleTask]
    /\ requests = 0
    /\ errors = 0
    /\ raised = [p \in Procs |-> None]
    /\ call = NoCall

NextEngine ==
    \/ \E p \in Procs, transaction \in TxPool : check_transaction(p, transaction)
    \/ \E p \in Procs : LookbackReturns(p)
    \/ \E p \in Procs, e \in DbErrors : LookbackFails(p, e)
    \/ \E p \in Procs : DailyReturns(p)
    \/ \E p \in Procs, e \in DbErrors : DailyFails(p, e)

SpecEngine == InitEngine /\ [][NextEngine]_vars

\* ------------------------------------------------------------------------
\* backend/routers/transactions.py: POST /transactions/
\* ------------------------------------------------------------------------
\* requests the clients send: four purchases of vehicle V1 on one Friday, the
\* second 15 minutes after the first and 200 km away, the third 30 minutes
\* after the second, the last one late, too large and too cheap
Payloads ==
    { FuelTransaction("S1", "V1", None, At(Friday, 12, 0), 50, 1800, 0),
      FuelTransaction("S2", "V1", None, At(Friday, 12, 15), 50, 1800, 200),
      FuelTransaction("S3", "V1", "W1", At(Friday, 12, 45), 50, 1800, 200),
      FuelTransaction("S4", "V1", None, At(Friday, 19, 30), 250, 1200, 0) }

VehicleTables == {v \in VehicleMaps : \A k \in DOMAIN v : v[k].assigned_to_project = None}

InsertAt(table, i, row) == SubSeq(table, 1, i) \o <<row>> \o SubSeq(table, i + 1, Len(table))

SameId(table, id) == {i \in 1..Len(table) : table[i].transaction_id = id}

\* lines 38-44: db.add(db_transaction); await db.flush()
create_transaction(p, transaction) ==
    /\ task[p].pc = "idle"
    /\ engine = NoneObj
    /\ requests < MaxRequests
    /\ requests' = requests + 1
    /\ task' = Set(p, [IdleTask EXCEPT !.pc = "flush", !.caller = "create_transaction",
                                       !.transaction = transaction])
    /\ UNCHANGED <<engine, transactions, anomalies, vehicles, poolclass, errors, raised, call>>

\* the places the database may give a new row: the only ordered query is
\* ORDER BY timestamp, so the table is kept by timestamp and the place of the
\* new row among rows of equal timestamp is the database's choice
Places(table, row) ==
    {i \in 0..Len(table) :
        /\ \A j \in 1..i : table[j].timestamp <= row.timestamp
        /\ \A j \in (i + 1)..Len(table) : table[j].timestamp >= row.timestamp}

\* the INSERT of the flush: transaction_id is unique. On separate connections
\* the INSERT waits while another session holds the same id uncommitted.
FlushReturns(p) ==
    /\ task[p].pc = "flush"
    /\ LET id == task[p].transaction.transaction_id
           same == SameId(transactions, id)
       IN  /\ poolclass = "StaticPool"
                \/ \A i \in same : transactions[i].session \in {"committed", p}
           /\ IF same # {}
              THEN /\ raised' = [raised EXCEPT ![p] = "IntegrityError"]
                   /\ Raise(p, "IntegrityError")
              ELSE /\ \E i \in Places(transactions, task[p].transaction) :
                        transactions' = InsertAt(transactions, i,
                                                 TransactionDB(task[p].transaction, p))
                   /\ task' = Set(p, [task[p] EXCEPT !.pc = "vehicles"])
                   /\ UNCHANGED <<anomalies, errors, raised>>
    /\ UNCHANGED <<engine, vehicles, poolclass, requests, call>>

\* lines 46-58: the vehicles are loaded, the engine is built with empty
\* project and worker maps and check_transaction runs to its first await
VehiclesReturns(p) ==
    /\ task[p].pc = "vehicles"
    /\ LET vehicles_dict == vehicles
           projects_dict == EmptyDict
           workers_dict == EmptyDict
           self == AnomalyEngine(vehicles_dict, projects_dict, workers_dict, p)
       IN  task' = Set(p, Enter(task[p], self, task[p].transaction))
    /\ UNCHANGED <<engine, transactions, anomalies, vehicles, poolclass, requests, errors, raised, call>>

\* line 72: await db.commit() inserts the pending anomaly and commits
CommitReturns(p) ==
    /\ task[p].pc = "commit"
    /\ LET a == task[p].db_anomaly
       IN  IF a # NoneObj /\ SameId(Visible(anomalies, p), a.transaction_id) # {}
           THEN /\ raised' = [raised EXCEPT ![p] = "IntegrityError"]
                /\ Raise(p, "IntegrityError")
           ELSE /\ anomalies' = Commit(IF a # NoneObj
                                       THEN Append(anomalies, a @@ [session |-> p])
                                       ELSE anomalies, p)
                /\ transactions' = Commit(transactions, p)
                /\ task' = Set(p, [task[p] EXCEPT !.pc = "done"])
                /\ UNCHANGED <<errors, raised>>
    /\ UNCHANGED <<engine, vehicles, poolclass, requests, call>>

\* the response (or the error) is sent and the worker takes the next request
Respond(p) ==
    /\ task[p].pc \in {"done", "failed"}
    /\ task[p].caller = "create_transaction"
    /\ task' = Set(p, IdleTask)
    /\ raised' = [raised EXCEPT ![p] = None]
    /\ UNCHANGED <<engine, transactions, anomalies, vehicles, poolclass, requests, errors, call>>

Init ==
    /\ engine = NoneObj
    /\ transactions = <<>>
    /\ anomalies = <<>>
    /\ vehicles \in VehicleTables
    /\ poolclass \in {"StaticPool", "QueuePool"}
    /\ task = [p \in Procs |-> IdleTask]
    /\ requests = 0
    /\ errors = 0
    /\ raised = [p \in Procs |-> None]
    /\ call = NoCall

Next ==
    \/ \E p \in Procs, transaction \in Payloads : create_transaction(p, transaction)
    \/ \E p \in Procs : FlushReturns(p)
    \/ \E p \in Procs : VehiclesReturns(p)
    \/ \E p \in Procs : LookbackReturns(p)
    \/ \E p \in Procs, e \in DbErrors : LookbackFails(p, e)
    \/ \E p \in Procs : DailyReturns(p)
    \/ \E p \in Procs, e \in DbErrors : DailyFails(p, e)
    \/ \E p \in Procs : CommitReturns(p)
    \/ \E p \in Procs : Respond(p)

Spec == Init /\ [][Next]_vars

\* ------------------------------------------------------------------------
\* One client that sends its requests one after the other
\* ------------------------------------------------------------------------
\* the purchases above, a fifth purchase of V1 on the same Friday (200 km from
\* the first, 90 minutes later), a purchase of another vehicle between the
\* first two, and a purchase of V1 at the time of the first, 200 km away
SerialPayloads ==
    Payloads \cup
    { FuelTransaction("S5", "V1", None, At(Friday, 13, 30), 50, 1800, 200),
      FuelTransaction("S6", "V2", None, At(Friday, 12, 10), 50, 1800, 0),
      FuelTransaction("S7", "V1", None, At(Friday, 12, 0), 50, 1800, 200) }

SerialProcs == {"p1"}

NextSerial ==
    \/ \E p \in SerialProcs, transaction \in SerialPayloads : create_transaction(p, transaction)
    \/ \E p \in SerialProcs : FlushReturns(p)
    \/ \E p \in SerialProcs : VehiclesReturns(p)
    \/ \E p \in SerialProcs : LookbackReturns(p)
    \/ \E p \in SerialProcs, e \in DbErrors : LookbackFails(p, e)
    \/ \E p \in SerialProcs : DailyReturns(p)
    \/ \E p \in SerialProcs, e \in DbErrors : DailyFails(p, e)
    \/ \E p \in SerialProcs : CommitReturns(p)
    \/ \E p \in SerialProcs : Respond(p)

SpecSerial == Init /\ [][NextSerial]_vars

\* ------------------------------------------------------------------------
\* backend/routers/anomalies.py: PATCH /anomalies/{anomaly_id}
\* ------------------------------------------------------------------------
\* request bodies: the one of test_review_anomaly, a status alone, a
\* withdrawn review, and an empty body
ReviewBodies ==
    { [reviewed |-> TRUE, status |-> "confirmed", review_notes |-> "Confirmed fraud case"],
      [status |-> "resolved"],
      [reviewed |-> FALSE],
      EmptyDict }

AnomalyIds == 1..2

CompanyIds == {None, "C1"}

\* variant: the fields the body leaves out are written with their defaults
model_dump_all(anomaly_update) ==
    [field \in {"reviewed", "review_notes", "status"} |-> anomaly_update[field]]

\* anomaly_update.model_dump(exclude_unset=True): the fields the body supplied
model_dump(anomaly_update) ==
    [field \in anomaly_update.model_fields_set |-> anomaly_update[field]]

\* the request body validated as AnomalyUpdate: a field the body leaves out
\* has its default and is not in model_fields_set
AnomalyUpdate(body) ==
    [reviewed |-> IF "reviewed" \in DOMAIN body THEN body.reviewed ELSE TRUE,
     review_notes |-> IF "review_notes" \in DOMAIN body THEN body.review_notes ELSE None,
     status |-> IF "status" \in DOMAIN body THEN body.status ELSE "pending",
     model_fields_set |-> DOMAIN body]

\* for field, value in update_data.items(): setattr(db_anomaly, field, value)
SetAttrs(db_anomaly, update_data) ==
    [field \in DOMAIN db_anomaly |->
        IF field \in DOMAIN update_data THEN update_data[field] ELSE db_anomaly[field]]

\* datetime.utcnow(): a clock that does not run backwards; it ticks with the
\* requests received
utcnow == requests

\* lines 108-115: the loaded object after the assignments of the handler
Reviewed(db_anomaly, anomaly_update) ==
    LET updated == SetAttrs(db_anomaly, model_dump(anomaly_update))
    IN  IF anomaly_update.reviewed
        THEN [updated EXCEPT !.reviewed_at = utcnow]
        ELSE updated

\* the UPDATE of the flush: the attributes whose value the handler changed
Flush(row, loaded, db_anomaly) ==
    [field \in DOMAIN row |->
        IF field \in DOMAIN loaded /\ db_anomaly[field] # loaded[field]
        THEN db_anomaly[field]
        ELSE row[field]]

\* select(AnomalyDB).where(AnomalyDB.id == anomaly_id), filtered by company
\* when one is given; the id is the place of the row in the table
SelectAnomaly(visible, anomaly_id, company_id) ==
    IF /\ anomaly_id \in 1..Len(visible)
       /\ company_id # None => visible[anomaly_id].company_id = company_id
    THEN visible[anomaly_id]
    ELSE NoneObj

\* AnomalyResult.model_validate(db_anomaly)
AnomalyResultOf(anomaly_id, row) ==
    [id |-> anomaly_id, transaction_id |-> row.transaction_id,
     is_anomalous |-> row.is_anomalous, severity |-> row.severity,
     risk_score |-> row.risk_score, reasons |-> row.reasons,
     reviewed |-> row.reviewed, reviewed_at |-> row.reviewed_at,
     review_notes |-> row.review_notes, status |-> row.status]

\* the request arrives (lines 86-102)
review_anomaly(p, anomaly_id, body, company_id) ==
    /\ task[p].pc = "idle"
    /\ engine = NoneObj
    /\ requests < MaxRequests
    /\ requests' = requests + 1
    /\ task' = Set(p, [IdleTask EXCEPT !.pc = "select", !.caller = "review_anomaly",
                                       !.request = [anomaly_id |-> anomaly_id,
                                                    anomaly_update |-> AnomalyUpdate(body),
                                                    company_id |-> company_id]])
    /\ UNCHANGED <<engine, transactions, anomalies, vehicles, poolclass, errors, raised, call>>

\* lines 103-117: the row is loaded, or the request fails with not-found and
\* get_db rolls the session back; the fields are assigned up to db.commit()
SelectReturns(p) ==
    /\ task[p].pc = "select"
    /\ LET t == task[p]
           loaded == SelectAnomaly(Visible(anomalies, p), t.request.anomaly_id,
                                   t.request.company_id)
       IN  IF loaded = NoneObj
           THEN /\ task' = Set(p, [t EXCEPT !.pc = "failed", !.error = "NotFoundException"])
                /\ raised' = [raised EXCEPT ![p] = "NotFoundException"]
                /\ transactions' = Rollback(transactions, p)
                /\ anomalies' = Rollback(anomalies, p)
                /\ errors' = errors + 1
           ELSE /\ task' = Set(p, [t EXCEPT !.pc = "review_commit",
                                           !.result = loaded,
                                           !.db_anomaly = Reviewed(loaded, t.request.anomaly_update)])
                /\ UNCHANGED <<transactions, anomalies, errors, raised>>
    /\ UNCHANGED <<engine, vehicles, poolclass, requests, call>>

\* line 117: await db.commit() writes the changed attributes and commits
ReviewCommits(p) ==
    /\ task[p].pc = "review_commit"
    /\ LET t == task[p]
           id == t.request.anomaly_id
       IN  /\ anomalies' = Commit([anomalies EXCEPT
                                      ![id] = Flush(@, t.result, t.db_anomaly)], p)
           /\ task' = Set(p, [t EXCEPT !.pc = "refresh", !.result = NoneObj])
    /\ transactions' = Commit(transactions, p)
    /\ UNCHANGED <<engine, vehicles, poolclass, requests, errors, raised, call>>

\* lines 118-121: await db.refresh(db_anomaly) reads the row again, and the
\* handler returns it
RefreshReturns(p) ==
    /\ task[p].pc = "refresh"
    /\ LET t == task[p]
           row == Visible(anomalies, p)[t.request.anomaly_id]
       IN  task' = Set(p, [t EXCEPT !.pc = "reviewed", !.db_anomaly = row,
                                    !.result = AnomalyResultOf(t.request.anomaly_id, row)])
    /\ UNCHANGED <<engine, transactions, anomalies, vehicles, poolclass, requests, errors, raised, call>>

\* the response (or the 404) is sent and the worker takes the next request
ReviewRespond(p) ==
    /\ task[p].pc \in {"reviewed", "failed"}
    /\ task[p].caller = "review_anomaly"
    /\ task' = Set(p, IdleTask)
    /\ raised' = [raised EXCEPT ![p] = None]
    /\ UNCHANGED <<engine, transactions, anomalies, vehicles, poolclass, requests, errors, call>>

\* the purchases one client sends while two others review: S1, anomalous for
\* an inactive vehicle, and S4, anomalous for every vehicle
ReviewPayloads == {tx \in Payloads : tx.transaction_id \in {"S1", "S4"}}

NextReview ==
    \/ \E p \in SerialProcs, transaction \in ReviewPayloads :
          create_transaction(p, transaction)
    \/ \E p \in SerialProcs : FlushReturns(p)
    \/ \E p \in SerialProcs : VehiclesReturns(p)
    \/ \E p \in SerialProcs : LookbackReturns(p)
    \/ \E p \in SerialProcs, e \in DbErrors : LookbackFails(p, e)
    \/ \E p \in SerialProcs : DailyReturns(p)
    \/ \E p \in SerialProcs, e \in DbErrors : DailyFails(p, e)
    \/ \E p \in SerialProcs : CommitReturns(p)
    \/ \E p \in SerialProcs : Respond(p)
    \/ \E p \in Procs, anomaly_id \in AnomalyIds, body \in ReviewBodies, company_id \in CompanyIds :
          review_anomaly(p, anomaly_id, body, company_id)
    \/ \E p \in Procs : SelectReturns(p)
    \/ \E p \in Procs : ReviewCommits(p)
    \/ \E p \in Procs : RefreshReturns(p)
    \/ \E p \in Procs : ReviewRespond(p)

SpecReview == Init /\ [][NextReview]_vars

\* ------------------------------------------------------------------------
\* Calls of single functions on bounded inputs
\* ------------------------------------------------------------------------
calculate_severity(score) ==
    /\ call' = [fn |-> "_calculate_severity", args |-> <<score>>,
                ret |-> <<_calculate_severity(score)>>]
    /\ UNCHANGED <<engine, transactions, anomalies, vehicles, poolclass, task, requests, errors, raised>>

FnUnchanged == UNCHANGED <<engine, transactions, anomalies, vehicles, poolclass, task, requests, errors, raised>>

\* timestamps around Friday 12:00, among them the ones exactly 30 minutes away
NearNoon ==
    { At(Friday, 11, 29), At(Friday, 11, 30), At(Friday, 11, 31), At(Friday, 12, 0),
      At(Friday, 12, 29), At(Friday, 12, 30), At(Friday, 12, 45) }

TimeLists(times, n) == UNION {[1..k -> times] : k \in 0..n}

call_check_double_dipping(transaction_time, recent_transactions, threshold_minutes) ==
    /\ call' = [fn |-> "check_double_dipping",
                args |-> <<transaction_time, recent_transactions, threshold_minutes>>,
                ret |-> check_double_dipping(transaction_time, recent_transactions,
                                            threshold_minutes)]
    /\ FnUnchanged

\* distances that are 15, 30 and 60 minutes of travel at 80 and at 120 km/h,
\* each with the next kilometre, and the distances around 1 km
TravelKm == {0, 1, 2, 20, 21, 30, 31, 40, 41, 60, 61, 80, 81, 120, 121}

PreviousTimes ==
    { NoneNum, At(Friday, 12, 0), At(Friday, 11, 45), At(Friday, 11, 30),
      At(Friday, 11, 0), At(Friday, 13, 0) }

call_check_consecutive_locations(current_lat, current_lon, current_time, previous_lat, previous_lon, previous_time, max_speed_kmh) ==
    /\ call' = [fn |-> "check_consecutive_locations",
                args |-> <<current_lat, current_lon, current_time, previous_lat,
                           previous_lon, previous_time, max_speed_kmh>>,
                ret |-> check_consecutive_locations(current_lat, current_lon, current_time,
                                                   previous_lat, previous_lon,
                                                   previous_time, max_speed_kmh)]
    /\ FnUnchanged

\* times of day at and next to the ends of the default window and of the
\* schedules below
ClockTimes ==
    { At(Friday, 5, 59), At(Friday, 6, 0), At(Friday, 7, 59), At(Friday, 8, 0),
      At(Friday, 12, 0), At(Friday, 17, 0), At(Friday, 17, 1), At(Friday, 18, 59),
      At(Friday, 19, 0), At(Friday, 23, 30) }

\* None, "", "08:00", "05:00", "22:00", "8:00", and the strings strptime
\* rejects: "0800", "25:00", "08:60", "ab:cd"
ScheduleStarts ==
    { NoneStr, <<>>, Sched("0", "8", "0", "0"), Sched("0", "5", "0", "0"),
      Sched("2", "2", "0", "0"), <<"8", ":", "0", "0">>,
      <<"0", "8", "0", "0">>, Sched("2", "5", "0", "0"), Sched("0", "8", "6", "0"),
      <<"a", "b", ":", "c", "d">> }

\* None, "17:00", "06:00", and the strings strptime rejects: "17h00",
\* "17:00:00"
ScheduleEnds ==
    { NoneStr, Sched("1", "7", "0", "0"), Sched("0", "6", "0", "0"),
      <<"1", "7", "h", "0", "0">>, <<"1", "7", ":", "0", "0", ":", "0", "0">> }

call_check_out_of_hours(transaction_time, worker_schedule_start, worker_schedule_end) ==
    /\ call' = [fn |-> "check_out_of_hours",
                args |-> <<transaction_time, worker_schedule_start,
                           worker_schedule_end>>,
                ret |-> check_out_of_hours(transaction_time, worker_schedule_start,
                                          worker_schedule_end)]
    /\ FnUnchanged

\* stations 0..31 km from a project centre at position 0, among them the
\* ones at radius + buffer and one km beyond, for radii 5 and 10 and buffers
\* 15 and 0
StationKm == {0, 5, 6, 10, 11, 20, 21, 25, 26, 31}

call_check_geofence_violation(station_lat, station_lon, project_lat, project_lon, geofence_radius_km, project_name, buffer_km) ==
    /\ call' = [fn |-> "check_geofence_violation",
                args |-> <<station_lat, station_lon, project_lat, project_lon,
                           geofence_radius_km, project_name, buffer_km>>,
                ret |-> check_geofence_violation(station_lat, station_lon, project_lat,
                                                project_lon, geofence_radius_km,
                                                project_name, buffer_km)]
    /\ FnUnchanged

\* capacities in litres; 20, 100 and 200 have a whole number of litres at 105%
Capacities == {NoneNum, 20, 50, 100, 200}

Fills == {0, 20, 21, 22, 50, 52, 53, 100, 104, 105, 106, 200, 210, 211}

call_check_tank_capacity_violation(liters, tank_capacity) ==
    /\ call' = [fn |-> "check_tank_capacity_violation",
                args |-> <<liters, tank_capacity>>,
                ret |-> check_tank_capacity_violation(liters, tank_capacity)]
    /\ FnUnchanged

\* prices in 1/100 SEK, all multiples of 0.25 SEK (exact as floats): the
\* prices 20% and 25% away from the averages 16.00, 18.00 and 20.00 where
\* these are multiples of 0.25 SEK, and their neighbours
Prices ==
    { 1175, 1200, 1225, 1350, 1375, 1425, 1450, 1500, 1525, 1575, 1600, 1625, 1800,
      1975, 2000, 2025, 2150, 2175, 2250, 2275, 2400, 2425, 2500, 2525 }

MarketAverages == {NoneNum, 1600, 1800, 2000}

call_check_price_anomaly(price_per_liter, market_average, threshold_percent) ==
    /\ call' = [fn |-> "check_price_anomaly",
                args |-> <<price_per_liter, market_average, threshold_percent>>,
                ret |-> check_price_anomaly(price_per_liter, market_average,
                                           threshold_percent)]
    /\ FnUnchanged

\* transaction times from Monday to the Monday after, at both ends of the
\* weekend
WeekTimes ==
    { At(Monday, 12, 0), At(Friday, 12, 0), At(Friday, 23, 59), At(Saturday, 0, 0),
      At(Saturday, 12, 0), At(Sunday, 23, 59), At(7, 0, 0) }

Holidays == {At(Monday, 0, 0), At(Friday, 0, 0), At(Friday, 18, 0), At(Saturday, 0, 0)}

call_check_weekend_holiday(transaction_time, holidays) ==
    /\ call' = [fn |-> "check_weekend_holiday",
                args |-> <<transaction_time, holidays>>,
                ret |-> check_weekend_holiday(transaction_time, holidays)]
    /\ FnUnchanged

call_check_vehicle_inactive(vehicle_status) ==
    /\ call' = [fn |-> "check_vehicle_inactive", args |-> <<vehicle_status>>,
                ret |-> check_vehicle_inactive(vehicle_status)]
    /\ FnUnchanged

\* dates on, just before and just after the Friday of the transaction
NearFriday ==
    { At(Friday, 0, 0), At(Friday, 23, 59), At(Friday - 1, 23, 59), At(Saturday, 0, 0) }

call_check_transaction_frequency(transaction_date, recent_transaction_dates, max_per_day) ==
    /\ call' = [fn |-> "check_transaction_frequency",
                args |-> <<transaction_date, recent_transaction_dates, max_per_day>>,
                ret |-> check_transaction_frequency(transaction_date,
                                                   recent_transaction_dates, max_per_day)]
    /\ FnUnchanged

InitFn ==
    /\ engine = NoneObj
    /\ transactions = <<>>
    /\ anomalies = <<>>
    /\ vehicles = EmptyDict
    /\ poolclass = "StaticPool"
    /\ task = [p \in Procs |-> IdleTask]
    /\ requests = 0
    /\ errors = 0
    /\ raised = [p \in Procs |-> None]
    /\ call = NoCall

NextFn ==
    \/ \E score \in 0..MaxScore : calculate_severity(score)
    \/ \E recent \in TimeLists(NearNoon, MaxList), threshold \in {15, double_dip_minutes} :
          call_check_double_dipping(At(Friday, 12, 0), recent, threshold)
    \/ \E transaction_time \in ClockTimes, start \in ScheduleStarts, end \in ScheduleEnds :
          call_check_out_of_hours(transaction_time, start, end)
    \/ \E station_lat \in StationKm, project_lat \in {NoneNum, 0}, project_lon \in {NoneNum, 0},
          geofence_radius_km \in {NoneNum, 5, 10}, buffer_km \in {0, geofence_buffer_km} :
          call_check_geofence_violation(station_lat, 0, project_lat, project_lon,
                                        geofence_radius_km, "Site", buffer_km)
    \/ \E liters \in Fills, tank_capacity \in Capacities :
          call_check_tank_capacity_violation(liters, tank_capacity)
    \/ \E price_per_liter \in Prices, market_average \in MarketAverages,
          threshold_percent \in {price_anomaly_threshold_percent, 25} :
          call_check_price_anomaly(price_per_liter, market_average, threshold_percent)
    \/ \E transaction_time \in WeekTimes, holidays \in TimeLists(Holidays, MaxList) :
          call_check_weekend_holiday(transaction_time, holidays)
    \/ \E vehicle_status \in {None, "active", "inactive", "maintenance"} :
          call_check_vehicle_inactive(vehicle_status)
    \/ \E dates \in TimeLists(NearFriday, MaxList),
          max_per_day \in {1, 2, max_transactions_per_day_per_vehicle} :
          call_check_transaction_frequency(At(Friday, 12, 0), dates, max_per_day)
    \/ \E lat \in TravelKm, previous_lat \in {NoneNum, 0}, previous_lon \in {NoneNum, 0},
          previous_time \in PreviousTimes, max_speed_kmh \in {80, MaxReasonableSpeed} :
          call_check_consecutive_locations(lat, 0, At(Friday, 12, 0), previous_lat,
                                           previous_lon, previous_time, max_speed_kmh)

SpecFn == InitFn /\ [][NextFn]_vars

\* ------------------------------------------------------------------------
\* Properties
\* ------------------------------------------------------------------------
\* the score each reason text stands for (rule table)
ScoreOf(reason) ==
    CASE reason.kind = "standard hours" -> 25
      [] reason.kind = "worker schedule" -> 30
      [] reason.kind = "geofence" -> 40
      [] reason.kind = "tank capacity" -> 40
      [] reason.kind = "inactive" -> 25
      [] reason.kind = "double-dipping" -> 35
      [] reason.kind = "above market" -> 20
      [] reason.kind = "below market" -> 30
      [] reason.kind = "excessive fueling" -> 30
      [] reason.kind = "weekend" -> 20
      [] reason.kind = "holiday" -> 25
      [] reason.kind = "simultaneous" -> 45
      [] reason.kind = "impossible travel" -> 35

\* the unclamped raw total of a result: the sum of the scores of its reasons
RawTotal(result) == SumSeq([i \in 1..Len(result.reasons) |-> ScoreOf(result.reasons[i])])

\* tasks whose check_transaction has returned a result
Returned == {p \in Procs : task[p].pc = "done" /\ task[p].result # NoneObj}

\* the verdicts of the rules one evaluation has run, in rule order
Verdicts(t) ==
    LET vehicle == ResolveVehicle(t.self, t.transaction)
        project == ResolveProject(t.self, vehicle)
        worker == ResolveWorker(t.self, t.transaction)
    IN  << Rule1(t.transaction, worker), Rule2(t.transaction, project),
           Rule3(t.transaction, vehicle), Rule4(vehicle) >>
        \o (IF t.self.db_session # None
            THEN << check_double_dipping(t.transaction.timestamp, Timestamps(t.recent_txs),
                                         double_dip_minutes),
                    check_price_anomaly(t.transaction.price_per_liter, NoneNum,
                                        price_anomaly_threshold_percent),
                    check_transaction_frequency(t.transaction.timestamp,
                                                Timestamps(t.daily_txs),
                                                max_transactions_per_day_per_vehicle),
                    check_weekend_holiday(t.transaction.timestamp, <<>>),
                    Rule9(t.transaction, t.recent_txs) >>
            ELSE <<>>)

\* C1: every result reports risk_score = min(raw total, 100), so the reported
\* score lies in 0..100 also when the triggered rules sum to more than 100
C1_ScoreIsClampedRawTotal ==
    \A p \in Returned :
        /\ task[p].result.risk_score = Min(RawTotal(task[p].result), 100)
        /\ task[p].result.risk_score >= 0
        /\ task[p].result.risk_score <= 100

C1_Witness ==
    \E p \in Returned : RawTotal(task[p].result) > 100 /\ task[p].result.risk_score = 100

\* C2: is_anomalous is true exactly when the unclamped raw total exceeds 20,
\* whatever the reported (clamped) score is
C2_AnomalousIffRawAbove20 ==
    \A p \in Returned : task[p].result.is_anomalous <=> (RawTotal(task[p].result) > 20)

C2_Witness ==
    /\ \E p \in Returned : RawTotal(task[p].result) = 20 /\ ~task[p].result.is_anomalous
    /\ \E p \in Returned : RawTotal(task[p].result) > 100 /\ task[p].result.is_anomalous

\* C3: severity by raw total has exact boundaries: 0..20 Low, 21..40 Medium,
\* 41..70 High, 71 and above Critical
SeverityTable(raw) ==
    IF raw \in 0..20 THEN "Low"
    ELSE IF raw \in 21..40 THEN "Medium"
    ELSE IF raw \in 41..70 THEN "High"
    ELSE "Critical"

C3_SeverityBoundaries ==
    call.fn = "_calculate_severity" => call.ret[1] = SeverityTable(call.args[1])

C3_Witness ==
    call.fn = "_calculate_severity" /\ call.args[1] = 71 /\ call.ret[1] = "Critical"

\* C4: the reasons of a result are exactly one reason per triggered rule, in
\* the order R1..R9
C4_ReasonsInRuleOrder ==
    \A p \in Returned :
        LET reasons == task[p].result.reasons
            verdicts == Verdicts(task[p])
            Triggered(i) == verdicts[i][1]
        IN  /\ \A i, j \in 1..Len(reasons) : i < j => reasons[i].rule < reasons[j].rule
            /\ \A k \in 1..9 :
                  Cardinality({i \in 1..Len(reasons) : reasons[i].rule = k})
                    = IF k <= Len(verdicts) /\ Triggered(k) THEN 1 ELSE 0
            /\ \A i \in 1..Len(reasons) : reasons[i] = verdicts[reasons[i].rule][2]

C4_Witness ==
    \E p \in Returned :
        /\ Len(task[p].result.reasons) = 9
        /\ \A k \in 1..9 : task[p].result.reasons[k].rule = k

RulesOf(result) == {result.reasons[i].rule : i \in 1..Len(result.reasons)}

Complete(result, transaction) ==
    /\ result.transaction_id = transaction.transaction_id
    /\ result.is_anomalous \in BOOLEAN
    /\ result.severity \in {"Low", "Medium", "High", "Critical"}
    /\ result.risk_score \in 0..100
    /\ DOMAIN result.reasons = 1..Len(result.reasons)

C6_MissingContextDegrades ==
    /\ \A p \in Procs :
          task[p].pc = "failed" =>
              /\ task[p].self.db_session # None
              /\ task[p].error \in DbErrors
    /\ \A p \in Procs :
          (task[p].pc # "idle" /\ task[p].self.db_session = None) => p \in Returned
    /\ \A p \in Returned :
          LET t == task[p]
              tx == t.transaction
              rules == RulesOf(t.result)
              known == tx.vehicle_id \in DOMAIN t.self.vehicles
              noProject ==
                  \/ t.self.vehicles[tx.vehicle_id].assigned_to_project = None
                  \/ t.self.vehicles[tx.vehicle_id].assigned_to_project
                         \notin DOMAIN t.self.projects
              noWorker == tx.driver_id = None \/ tx.driver_id \notin DOMAIN t.self.workers
          IN  /\ Complete(t.result, tx)
              /\ ~known => rules \cap {2, 3, 4} = {}
              /\ (known /\ noProject) => 2 \notin rules
              /\ noWorker =>
                    /\ 1 \in rules <=> (Hour(tx.timestamp) < 6 \/ Hour(tx.timestamp) >= 19)
                    /\ \A i \in 1..Len(t.result.reasons) :
                          t.result.reasons[i].rule = 1
                              => t.result.reasons[i].kind = "standard hours"
              /\ t.self.db_session = None => rules \cap (5..9) = {}

C6_Witness ==
    \E p \in Returned :
        /\ task[p].transaction.vehicle_id \notin DOMAIN task[p].self.vehicles
        /\ task[p].transaction.driver_id # None
        /\ task[p].transaction.driver_id \notin DOMAIN task[p].self.workers
        /\ task[p].self.db_session = None
        /\ task[p].transaction.liters > 100

\* C7: when a history fetch fails, check_transaction ends with the error the
\* database raised, returns no result, and has issued each fetch at most once
C7_FetchErrorPropagates ==
    \A p \in Procs :
        /\ task[p].fetches \in {<<>>, <<"lookback">>, <<"lookback", "daily">>}
        /\ task[p].pc = "failed" =>
              /\ raised[p] \in DbErrors
              /\ task[p].error = raised[p]
              /\ task[p].result = NoneObj
              /\ task[p].fetches # <<>>

C7_Witness ==
    \E p, q \in Procs :
        /\ task[p].pc = "failed" /\ task[p].fetches = <<"lookback", "daily">>
        /\ task[p].error = "TimeoutError"
        /\ task[q].pc = "failed" /\ task[q].fetches = <<"lookback">>
        /\ task[q].error = "OperationalError"

\* C8: R1-R4 are evaluated on every call, R5-R9 only with a session: without
\* one the result has no R5-R9 reason (also for a weekend or mispriced
\* purchase), no fetch is issued and the raw total is the R1-R4 sum
C8_HistoryRulesNeedSession ==
    \A p \in Returned :
        LET t == task[p]
            verdicts == Verdicts(t)
            rules == RulesOf(t.result)
        IN  /\ \A k \in 1..4 : k \in rules <=> verdicts[k][1]
            /\ t.self.db_session = None =>
                  /\ rules \subseteq 1..4
                  /\ t.fetches = <<>>
                  /\ RawTotal(t.result)
                       = SumSeq([k \in 1..4 |-> IF verdicts[k][1] THEN verdicts[k][3] ELSE 0])

C8_Witness ==
    \E p \in Returned :
        /\ task[p].self.db_session = None
        /\ Weekday(task[p].transaction.timestamp) >= 5
        /\ task[p].transaction.price_per_liter * 100 > 120 * DefaultMarketAverage
        /\ RulesOf(task[p].result) = 1..4

\* C9: every successful ingestion returns a complete result; an anomaly row
\* is stored for its transaction exactly when the result is anomalous, with
\* the result's severity, score and reasons; stored anomalies have a score in
\* 21..100, a severity other than Low, and at most one row per transaction
StoredFor(id) ==
    {i \in 1..Len(anomalies) :
        anomalies[i].transaction_id = id /\ anomalies[i].session = "committed"}

C9_AnomalyStoredIffAnomalous ==
    /\ \A p \in Procs :
          (task[p].pc = "done" /\ task[p].caller = "create_transaction") =>
              /\ task[p].result # NoneObj
              /\ Complete(task[p].result, task[p].transaction)
              /\ errors = 0 =>
                    /\ task[p].result.is_anomalous
                          <=> StoredFor(task[p].transaction.transaction_id) # {}
                    /\ \A i \in StoredFor(task[p].transaction.transaction_id) :
                          /\ anomalies[i].severity = task[p].result.severity
                          /\ anomalies[i].risk_score = task[p].result.risk_score
                          /\ anomalies[i].reasons = task[p].result.reasons
    /\ \A i \in 1..Len(anomalies) :
          /\ anomalies[i].is_anomalous
          /\ anomalies[i].risk_score \in 21..100
          /\ anomalies[i].severity \in {"Medium", "High", "Critical"}
    /\ \A i, j \in 1..Len(anomalies) :
          anomalies[i].transaction_id = anomalies[j].transaction_id => i = j

C9_Witness ==
    /\ errors = 0
    /\ \E p, q \in Procs :
          /\ task[p].pc = "done" /\ task[p].result.is_anomalous
          /\ task[p].result.risk_score = 100
          /\ StoredFor(task[p].transaction.transaction_id) # {}
          /\ task[q].pc = "done" /\ ~task[q].result.is_anomalous
          /\ StoredFor(task[q].transaction.transaction_id) = {}

\* C10: interleaved evaluations on one engine do not disturb each other: each
\* returns what it returns when run alone on the snapshot, and no step
\* changes the engine's maps or the stored history
Alone(self, table, transaction) ==
    LET a4 == Rules1to4(self, transaction)
    IN  IF self.db_session = None
        THEN AnomalyResult(transaction, a4.score, a4.reasons)
        ELSE LET recent == get_recent_transactions(self, table, transaction.vehicle_id,
                               lookback_time(transaction), transaction.transaction_id)
                 daily == get_recent_transactions(self, table, transaction.vehicle_id,
                              day_start(transaction), transaction.transaction_id)
                 a6 == Rules5to6(a4, transaction, recent)
                 a9 == Rules7to9(a6, transaction, recent, daily)
             IN  AnomalyResult(transaction, a9.score, a9.reasons)

C10_InterleavingIndependent ==
    [][ /\ engine' = engine
        /\ transactions' = transactions
        /\ \A p \in Procs :
              (task'[p].pc = "done" /\ task'[p].result # NoneObj) =>
                  task'[p].result = Alone(engine, transactions, task'[p].transaction)
      ]_vars

C10_Witness ==
    \E p, q \in Procs :
        /\ task[p].transaction # NoneObj /\ task[q].transaction # NoneObj
        /\ task[p].transaction # task[q].transaction
        /\ task[p].pc = "done" /\ task[p].recent_txs # <<>>
        /\ task[q].pc = "daily" /\ task[q].reasons # <<>>

\* C12: check_double_dipping returns the one 35-point verdict exactly when
\* some timestamp of the list is strictly less than threshold_minutes away from
\* the transaction time (before or after it); a timestamp exactly the
\* threshold away, or an empty list, gives no violation
C12_DoubleDippingStrictWindow ==
    call.fn = "check_double_dipping" =>
        LET transaction_time == call.args[1]
            recent == call.args[2]
            threshold == call.args[3]
            Within(i) == /\ recent[i] - transaction_time < threshold
                         /\ transaction_time - recent[i] < threshold
        IN  IF \E i \in 1..Len(recent) : Within(i)
            THEN call.ret = <<TRUE, [rule |-> 5, kind |-> "double-dipping"], 35>>
            ELSE call.ret = <<FALSE, NoReason, 0>>

C12_Witness ==
    /\ call.fn = "check_double_dipping"
    /\ call.args = <<At(Friday, 12, 0), <<At(Friday, 12, 30), At(Friday, 11, 31)>>,
                     double_dip_minutes>>
    /\ call.ret[1] /\ call.ret[3] = 35

\* C14: check_consecutive_locations does not trigger when the previous
\* latitude, longitude or time is missing; with zero elapsed time it triggers
\* with 45 iff the two stations are more than 1 km apart; otherwise it
\* triggers with 35 iff distance / elapsed hours is strictly above the maximum
\* speed
C14_ImpossibleTravel ==
    call.fn = "check_consecutive_locations" =>
        LET a == call.args
            missing == a[4] = NoneNum \/ a[5] = NoneNum \/ a[6] = NoneNum
            distance == haversine(a[5], a[4], a[2], a[1])
            elapsed == IF a[3] >= a[6] THEN a[3] - a[6] ELSE a[6] - a[3]
            \* distance / (elapsed / 60) > max speed, for elapsed > 0
            TooFast == distance * 60 > a[7] * elapsed
        IN  IF missing THEN call.ret = <<FALSE, NoReason, 0>>
            ELSE IF elapsed = 0
                 THEN IF distance > 1
                      THEN call.ret[1] /\ call.ret[3] = 45 /\ call.ret[2].rule = 9
                      ELSE call.ret = <<FALSE, NoReason, 0>>
                 ELSE IF TooFast
                      THEN call.ret[1] /\ call.ret[3] = 35 /\ call.ret[2].rule = 9
                      ELSE call.ret = <<FALSE, NoReason, 0>>

C14_Witness ==
    /\ call.fn = "check_consecutive_locations"
    /\ call.args = <<2, 0, At(Friday, 12, 0), 0, 0, At(Friday, 12, 0), MaxReasonableSpeed>>
    /\ call.ret[1] /\ call.ret[3] = 45

\* a string of the form HH:MM with HH in 00..23 and MM in 00..59
WellFormed(s) ==
    /\ Len(s) = 5
    /\ s[3] = ":"
    /\ \A i \in {1, 2, 4, 5} : IsDigit(s[i])
    /\ 10 * DigitVal(s[1]) + DigitVal(s[2]) <= 23
    /\ 10 * DigitVal(s[4]) + DigitVal(s[5]) <= 59

\* minutes after midnight a well-formed string stands for
Minutes(s) ==
    (10 * DigitVal(s[1]) + DigitVal(s[2])) * 60 + 10 * DigitVal(s[4]) + DigitVal(s[5])

Missing(s) == s = NoneStr \/ s = <<>>

\* C15: without a schedule (start or end missing) check_out_of_hours triggers
\* with 25 iff the hour is before 6 or from 19 on; with a well-formed HH:MM
\* schedule it triggers with 30 iff the time of day is outside [start, end],
\* both ends included, whatever the default window says
C15_OutOfHoursWindows ==
    call.fn = "check_out_of_hours" =>
        LET t == call.args[1]
            start == call.args[2]
            end == call.args[3]
            hh == (t % DayMinutes) \div 60
            clock == t % DayMinutes
        IN  /\ (Missing(start) \/ Missing(end)) =>
                  IF hh < 6 \/ hh >= 19
                  THEN call.ret[1] /\ call.ret[3] = 25 /\ call.ret[2].kind = "standard hours"
                  ELSE call.ret = <<FALSE, NoReason, 0>>
            /\ (~Missing(start) /\ ~Missing(end) /\ WellFormed(start) /\ WellFormed(end)) =>
                  IF Minutes(start) <= clock /\ clock <= Minutes(end)
                  THEN call.ret = <<FALSE, NoReason, 0>>
                  ELSE call.ret[1] /\ call.ret[3] = 30 /\ call.ret[2].kind = "worker schedule"

C15_Witness ==
    /\ call.fn = "check_out_of_hours"
    /\ call.args = <<At(Friday, 17, 0), Sched("0", "5", "0", "0"),
                     Sched("1", "7", "0", "0")>>
    /\ call.ret = <<FALSE, NoReason, 0>>

\* C16: with both schedule strings supplied and at least one that does not
\* parse as HH:MM, check_out_of_hours returns (False, None, 0) at every time
\* of day, also outside 06:00-19:00
Parses(s) ==
    \E k \in 2..(Len(s) - 1) :
        /\ s[k] = ":"
        /\ k <= 3 /\ Len(s) - k <= 2
        /\ \A i \in 1..Len(s) : i # k => IsDigit(s[i])
        /\ (IF k = 2 THEN DigitVal(s[1]) ELSE 10 * DigitVal(s[1]) + DigitVal(s[2])) <= 23
        /\ (IF Len(s) - k = 1 THEN DigitVal(s[k + 1])
            ELSE 10 * DigitVal(s[k + 1]) + DigitVal(s[k + 2])) <= 59

C17_GeofenceStrictlyBeyondBuffer ==
    call.fn = "check_geofence_violation" =>
        LET a == call.args
            missing == a[3] = NoneNum \/ a[4] = NoneNum \/ a[5] = NoneNum
            distance == haversine(a[2], a[1], a[4], a[3])
        IN  IF ~missing /\ distance > a[5] + a[7]
            THEN call.ret[1] /\ call.ret[3] = 40 /\ call.ret[2].rule = 2
            ELSE call.ret = <<FALSE, NoReason, 0>>

C17_Witness ==
    /\ call.fn = "check_geofence_violation"
    /\ call.args = <<20, 0, 0, 0, 5, "Site", geofence_buffer_km>>
    /\ call.ret = <<FALSE, NoReason, 0>>

\* C18: check_tank_capacity_violation does not trigger when the capacity is
\* unknown; otherwise it triggers with 40 iff the litres are strictly more
\* than 105% of the capacity
C18_TankTolerance ==
    call.fn = "check_tank_capacity_violation" =>
        LET liters == call.args[1]
            tank_capacity == call.args[2]
        IN  IF tank_capacity # NoneNum /\ 20 * liters > 21 * tank_capacity
            THEN call.ret[1] /\ call.ret[3] = 40 /\ call.ret[2].rule = 3
            ELSE call.ret = <<FALSE, NoReason, 0>>

C18_Witness ==
    /\ call.fn = "check_tank_capacity_violation"
    /\ call.args = <<105, 100>>
    /\ call.ret = <<FALSE, NoReason, 0>>

\* C19: check_price_anomaly takes 18.00 as the market average when none is
\* supplied and triggers iff the price is away from the average by strictly
\* more than the threshold percentage of the average; a triggering price
\* above the average scores 20, one below it scores 30
C19_PriceDeviation ==
    call.fn = "check_price_anomaly" =>
        LET price == call.args[1]
            average == IF call.args[2] = NoneNum THEN 1800 ELSE call.args[2]
            threshold == call.args[3]
            Above == (price - average) * 100 > threshold * average
            Below == (average - price) * 100 > threshold * average
        IN  IF Above THEN call.ret[1] /\ call.ret[3] = 20 /\ call.ret[2].kind = "above market"
            ELSE IF Below
                 THEN call.ret[1] /\ call.ret[3] = 30 /\ call.ret[2].kind = "below market"
                 ELSE call.ret = <<FALSE, NoReason, 0>>

C19_Witness ==
    /\ call.fn = "check_price_anomaly"
    /\ call.args = <<1425, NoneNum, price_anomaly_threshold_percent>>
    /\ call.ret[1] /\ call.ret[3] = 30

\* C20: check_weekend_holiday triggers with 20 on every Saturday and Sunday,
\* also when that date is a supplied holiday; on a weekday it triggers with
\* 25 iff the date is the date of some supplied holiday, and never when no
\* holidays are supplied
C20_WeekendBeforeHoliday ==
    call.fn = "check_weekend_holiday" =>
        LET t == call.args[1]
            holidays == call.args[2]
            day == t \div DayMinutes
            weekend == day % 7 \in {5, 6}
            holiday == \E i \in 1..Len(holidays) : holidays[i] \div DayMinutes = day
        IN  IF weekend
            THEN call.ret[1] /\ call.ret[3] = 20 /\ call.ret[2].kind = "weekend"
            ELSE IF holiday
                 THEN call.ret[1] /\ call.ret[3] = 25 /\ call.ret[2].kind = "holiday"
                 ELSE call.ret = <<FALSE, NoReason, 0>>

C20_Witness ==
    /\ call.fn = "check_weekend_holiday"
    /\ call.args = <<At(Saturday, 12, 0), <<At(Saturday, 0, 0)>>>>
    /\ call.ret[1] /\ call.ret[3] = 20

\* requests whose evaluation has returned to create_transaction
Evaluated ==
    {p \in Procs : task[p].caller = "create_transaction" /\ task[p].pc \in {"commit", "done"}}

\* stored rows of the same vehicle other than the row of the transaction itself
Others(transaction) ==
    {i \in 1..Len(transactions) :
        /\ transactions[i].vehicle_id = transaction.vehicle_id
        /\ transactions[i].transaction_id # transaction.transaction_id}

\* what the reasons of the other rules add up to
ScoreWithout(t, rule) ==
    SumSeq([i \in 1..Len(t.reasons) |->
               IF t.reasons[i].rule = rule THEN 0 ELSE ScoreOf(t.reasons[i])])

\* C11: with requests ingested one after the other, a result carries the
\* double-dipping reason, worth 35, exactly when another stored transaction
\* of the same vehicle is less than 30 minutes away: the second of two
\* purchases 15 minutes apart has it, the first, evaluated with only its own
\* row and rows of other vehicles stored, has not
C11_DoubleDippingOnSecond ==
    \A p \in Evaluated :
        LET t == task[p]
            tx == t.transaction
            close == \E i \in Others(tx) :
                        /\ transactions[i].timestamp - tx.timestamp < 30
                        /\ tx.timestamp - transactions[i].timestamp < 30
            flagged == \E k \in 1..Len(t.result.reasons) : t.result.reasons[k].rule = 5
        IN  /\ \E i \in 1..Len(transactions) : transactions[i].transaction_id = tx.transaction_id
            /\ flagged <=> close
            /\ flagged => t.score = ScoreWithout(t, 5) + 35

C11_Witness ==
    /\ \E p \in Evaluated :
          /\ task[p].transaction.transaction_id = "S2"
          /\ 5 \in RulesOf(task[p].result)
          /\ task[p].pc = "done"
    /\ \E i \in 1..Len(anomalies) :
          anomalies[i].transaction_id = "S1" /\ 5 \notin RulesOf(anomalies[i])
    /\ \E i \in 1..Len(transactions) : transactions[i].transaction_id = "S6"
    /\ Len(transactions) = 3

RuleFunctions ==
    { "check_out_of_hours", "check_geofence_violation", "check_tank_capacity_violation",
      "check_vehicle_inactive", "check_double_dipping", "check_price_anomaly",
      "check_transaction_frequency", "check_weekend_holiday",
      "check_consecutive_locations" }

\* C21: each of the nine rule functions returns either a violation with a
\* reason and a score from {20, 25, 30, 35, 40, 45}, or no violation with no
\* reason and score 0
C21_RuleScoresFromFixedSet ==
    call.fn \in RuleFunctions =>
        \/ /\ call.ret[1] = TRUE
           /\ call.ret[2] # NoReason
           /\ call.ret[3] \in {20, 25, 30, 35, 40, 45}
        \/ /\ call.ret[1] = FALSE
           /\ call.ret[2] = NoReason
           /\ call.ret[3] = 0

C21_Witness ==
    /\ call.fn = "check_vehicle_inactive"
    /\ call.args = <<"inactive">>
    /\ call.ret[1] /\ call.ret[3] = 25

\* the evaluation of a purchase at 03:00 on a Sunday, of more litres than 105%
\* of the known tank capacity, at a price 38% above 18.00, at a station
\* beyond radius + buffer of the known project the vehicle is assigned to
Scenario5(t) ==
    LET tx == t.transaction
    IN  /\ (tx.timestamp \div DayMinutes) % 7 = 6
        /\ tx.timestamp % DayMinutes = 3 * 60
        /\ tx.price_per_liter * 100 = 138 * 1800
        /\ tx.vehicle_id \in DOMAIN t.self.vehicles
        /\ LET vehicle == t.self.vehicles[tx.vehicle_id]
           IN  /\ tx.liters * 100 > 105 * vehicle.tank_capacity_liters
               /\ vehicle.assigned_to_project \in DOMAIN t.self.projects
               /\ LET project == t.self.projects[vehicle.assigned_to_project]
                      away == IF tx.station_lat >= project.geofence_lat
                              THEN tx.station_lat - project.geofence_lat
                              ELSE project.geofence_lat - tx.station_lat
                  IN  away > project.geofence_radius_km + 15

Scenario5Result(t) ==
    /\ t.score >= 95
    /\ t.result.risk_score = 100
    /\ t.result.severity = "Critical"
    /\ t.result.is_anomalous
    /\ Len(t.result.reasons) >= 4
    /\ \A i, j \in 1..Len(t.result.reasons) :
          i < j => t.result.reasons[i].rule < t.result.reasons[j].rule

\* C22 as stated: every evaluation of such a purchase has raw score >= 95,
\* reported score 100, severity Critical, is_anomalous and at least 4 reasons
\* in rule order
C22_Original ==
    \A p \in Returned : Scenario5(task[p]) => Scenario5Result(task[p])

\* C22 amended: the same for every evaluation by an engine that has a database
\* session, so that rules 5-9 (price, weekend) run as well
C22_MultipleViolations ==
    \A p \in Returned :
        (Scenario5(task[p]) /\ task[p].self.db_session # None) => Scenario5Result(task[p])

C22_Witness ==
    \E p \in Returned :
        /\ Scenario5(task[p])
        /\ task[p].self.db_session # None
        /\ task[p].recent_txs = <<>>
        /\ Len(task[p].result.reasons) = 5
        /\ task[p].result.risk_score = 100

\* C23: an evaluation in which no rule triggers returns raw and reported score
\* 0, severity Low, is_anomalous false and no reasons; and a result has no
\* reasons only when the raw score of the evaluation is 0
C23_CleanTransaction ==
    \A p \in Returned :
        LET t == task[p]
            verdicts == Verdicts(t)
        IN  /\ (\A i \in 1..Len(verdicts) : ~verdicts[i][1]) =>
                  /\ t.score = 0
                  /\ t.result.risk_score = 0
                  /\ t.result.severity = "Low"
                  /\ ~t.result.is_anomalous
                  /\ t.result.reasons = <<>>
            /\ t.result.reasons = <<>> => t.score = 0
            /\ t.score = 0 => t.result.reasons = <<>>

C23_Witness ==
    \E p \in Returned :
        LET t == task[p]
        IN  /\ t.transaction.transaction_id = "T1"
            /\ t.self.db_session # None
            /\ "V1" \in DOMAIN t.self.vehicles
            /\ t.self.vehicles["V1"].status = "active"
            /\ t.recent_txs = <<>>
            /\ t.daily_txs = <<>>
            /\ t.score = 0
            /\ t.result.risk_score = 0
            /\ t.result.reasons = <<>>

\* stored rows of the same vehicle, other than the evaluated one, that are not
\* older than the double-dip window
Window(transaction) ==
    {i \in Others(transaction) :
        transactions[i].timestamp >= transaction.timestamp - double_dip_minutes}

\* those of them no other one has a greater timestamp than
Latest(transaction) ==
    {i \in Window(transaction) :
        \A j \in Window(transaction) : transactions[j].timestamp <= transactions[i].timestamp}

\* rule 9 on the evaluated transaction and one stored row
Compared(transaction, row) ==
    check_consecutive_locations(transaction.station_lat, transaction.station_lon,
                                transaction.timestamp, row.station_lat, row.station_lon,
                                row.timestamp, MaxReasonableSpeed)

\* C25: an engine with a session evaluates rule 9 against one stored row, a
\* row of greatest timestamp among the same-vehicle rows other than the
\* evaluated one that are not older than the window; when there is none,
\* rule 9 gives no reason, so an older row is never compared, however far away
C25_LatestInWindowOnly ==
    \A p \in Returned :
        task[p].self.db_session # None =>
            LET t == task[p]
                tx == t.transaction
                IsNine(reason) == reason.rule = 9
                nine == SelectSeq(t.result.reasons, IsNine)
            IN  /\ Window(tx) = {} => nine = <<>>
                /\ Window(tx) # {} =>
                      \E i \in Latest(tx) :
                          LET verdict == Compared(tx, transactions[i])
                          IN  nine = IF verdict[1] THEN <<verdict[2]>> ELSE <<>>

C25_Witness ==
    \E p \in Returned :
        /\ task[p].self.db_session # None
        /\ task[p].transaction.transaction_id = "T2"
        /\ Len(transactions) = 1
        /\ transactions[1].transaction_id = "H3"
        /\ Compared(task[p].transaction, transactions[1])[1]
        /\ task[p].daily_txs # <<>>
        /\ 9 \notin RulesOf(task[p].result)

\* C30: with a well-formed schedule whose start is later than its end (an
\* overnight shift), check_out_of_hours flags every time of day with the
\* "worker schedule" reason and score 30, also the times inside the shift
C30_OvernightShiftAlwaysFlagged ==
    call.fn = "check_out_of_hours" =>
        LET start == call.args[2]
            end == call.args[3]
        IN  (/\ ~Missing(start) /\ ~Missing(end)
             /\ WellFormed(start) /\ WellFormed(end)
             /\ Minutes(start) > Minutes(end))
                => call.ret = <<TRUE, [rule |-> 1, kind |-> "worker schedule"], 30>>

C30_Witness ==
    /\ call.fn = "check_out_of_hours"
    /\ call.args = <<At(Friday, 23, 30), Sched("2", "2", "0", "0"),
                     Sched("0", "6", "0", "0")>>
    /\ call.ret[1] /\ call.ret[3] = 30

KindsOf(result) == {result.reasons[i].kind : i \in 1..Len(result.reasons)}

\* C27: a result with the "simultaneous transactions" reason of rule 9 also
\* has the double-dipping reason of rule 5, hence a raw total of at least 80,
\* severity Critical and is_anomalous true
C27_SimultaneousImpliesDoubleDipping ==
    \A p \in Evaluated \cup Returned :
        LET result == task[p].result
        IN  "simultaneous" \in KindsOf(result) =>
                /\ "double-dipping" \in KindsOf(result)
                /\ task[p].score >= 80
                /\ RawTotal(result) >= 80
                /\ result.severity = "Critical"
                /\ result.is_anomalous

C27_Witness ==
    \E p \in Evaluated :
        /\ task[p].transaction.transaction_id = "S7"
        /\ "simultaneous" \in KindsOf(task[p].result)
        /\ task[p].score = 80
        /\ \E i \in 1..Len(transactions) : transactions[i].transaction_id = "S1"

\* stored rows of the same vehicle with a later timestamp than the transaction
Later(transaction) ==
    {i \in Others(transaction) : transactions[i].timestamp > transaction.timestamp}

\* C28: with requests ingested one after the other in any order of their
\* timestamps, a stored same-vehicle row later than the evaluated transaction
\* counts like an earlier one: rule 5 triggers when one is less than 30
\* minutes later, rule 7 counts the later rows of the same date, and rule 9
\* compares against a later row when it has the greatest timestamp
C28_LaterRowsCountAsPrior ==
    \A p \in Evaluated :
        LET t == task[p]
            tx == t.transaction
            rules == RulesOf(t.result)
            sameDay == {i \in Others(tx) :
                          transactions[i].timestamp \div DayMinutes
                              = tx.timestamp \div DayMinutes}
            IsNine(reason) == reason.rule = 9
            nine == SelectSeq(t.result.reasons, IsNine)
        IN  /\ (\E i \in Later(tx) : transactions[i].timestamp - tx.timestamp < 30)
                  => 5 \in rules
            /\ (Others(tx) = Later(tx) /\ Cardinality(sameDay) >= 3) => 7 \in rules
            /\ Later(tx) # {} =>
                  \E i \in Latest(tx) :
                      /\ i \in Later(tx)
                      /\ LET verdict == Compared(tx, transactions[i])
                         IN  nine = IF verdict[1] THEN <<verdict[2]>> ELSE <<>>

C28_Witness ==
    \E p \in Evaluated :
        /\ task[p].transaction.transaction_id = "S1"
        /\ Cardinality(Later(task[p].transaction)) = 3
        /\ Others(task[p].transaction) = Later(task[p].transaction)
        /\ {5, 7, 9} \subseteq RulesOf(task[p].result)

\* C26: when the evaluations of two purchases of one vehicle 15 minutes apart
\* (S1 and S2), ingested by two requests none of which failed, have both
\* returned, at least one of the two results carries the double-dipping reason
C26_OneOfTwoFlagged ==
    errors = 0 =>
        \A p, q \in Evaluated :
            (/\ task[p].transaction.transaction_id = "S1"
             /\ task[q].transaction.transaction_id = "S2")
                => \/ 5 \in RulesOf(task[p].result)
                   \/ 5 \in RulesOf(task[q].result)

\* the step of request p from pc a to pc b
Step(p, a, b) == task[p].pc = a /\ task'[p].pc = b

\* the frame of every step a review request takes: the commit changes, in
\* the reviewed anomaly alone, no field but the supplied ones and reviewed_at;
\* no other step changes an anomaly, so a not-found changes none; no step
\* changes or removes a committed transaction or runs the engine
ReviewFrame(p) ==
    /\ (task[p].caller = "review_anomaly" /\ task'[p] # task[p]) =>
          /\ \A i \in 1..Len(transactions) :
                transactions[i].session = "committed" =>
                    \E j \in 1..Len(transactions') : transactions'[j] = transactions[i]
          /\ task'[p].self = NoneObj /\ task'[p].fetches = <<>>
          /\ task'[p].reasons = <<>> /\ task'[p].score = 0
          /\ ~Step(p, "review_commit", "refresh") => anomalies' = anomalies
    /\ Step(p, "select", "failed") => task'[p].error = "NotFoundException"
    /\ Step(p, "review_commit", "refresh") =>
          LET id == task[p].request.anomaly_id
              supplied == task[p].request.anomaly_update.model_fields_set
          IN  /\ Len(anomalies') = Len(anomalies)
              /\ \A i \in 1..Len(anomalies) : i # id => anomalies'[i] = anomalies[i]
              /\ \A field \in DOMAIN anomalies[id] :
                    field \notin supplied \cup {"reviewed_at"}
                        => anomalies'[id][field] = anomalies[id][field]

\* C24 as stated: every step of a review request keeps that frame, its
\* commit stores the supplied values (and reviewed_at for a request whose
\* reviewed is true) and its response is the stored anomaly, carrying the
\* supplied values
C24_Original ==
    [][\A p \in Procs :
          /\ ReviewFrame(p)
          /\ Step(p, "review_commit", "refresh") =>
                LET id == task[p].request.anomaly_id
                    update == task[p].request.anomaly_update
                IN  /\ \A field \in update.model_fields_set :
                          anomalies'[id][field] = update[field]
                    /\ update.reviewed => anomalies'[id].reviewed_at # NoneNum
          /\ Step(p, "refresh", "reviewed") =>
                LET id == task[p].request.anomaly_id
                    update == task[p].request.anomaly_update
                IN  /\ task'[p].result = AnomalyResultOf(id, anomalies[id])
                    /\ \A field \in update.model_fields_set :
                          task'[p].result[field] = update[field]]_vars

\* C24 amended: every step of a review request keeps that frame; its commit
\* stores the supplied values when the row is still as the request read it;
\* its response is the anomaly as stored when it is read back, carrying the
\* supplied values when the row is still as the request's commit left it
C24_ReviewFrame ==
    [][\A p \in Procs :
          /\ ReviewFrame(p)
          /\ Step(p, "review_commit", "refresh") =>
                LET id == task[p].request.anomaly_id
                    update == task[p].request.anomaly_update
                IN  /\ anomalies[id] = task[p].result =>
                          \A field \in update.model_fields_set :
                              anomalies'[id][field] = update[field]
                    /\ update.reviewed => anomalies'[id].reviewed_at # NoneNum
          /\ Step(p, "refresh", "reviewed") =>
                LET id == task[p].request.anomaly_id
                    update == task[p].request.anomaly_update
                IN  /\ task'[p].result = AnomalyResultOf(id, anomalies[id])
                    /\ (\A field \in {"reviewed", "review_notes", "status"} :
                           anomalies[id][field] = task[p].db_anomaly[field]) =>
                          \A field \in update.model_fields_set :
                              task'[p].result[field] = update[field]]_vars

C24_Witness ==
    \E p, q \in Procs :
        /\ task[p].pc = "reviewed"
        /\ task[p].request.anomaly_update.model_fields_set
              = {"reviewed", "review_notes", "status"}
        /\ task[p].request.anomaly_id = 2
        /\ task[p].result.reviewed /\ task[p].result.status = "confirmed"
        /\ task[p].result.review_notes = "Confirmed fraud case"
        /\ task[p].result.reviewed_at # NoneNum
        /\ task[p].result.risk_score = anomalies[2].risk_score
        /\ anomalies[1].status = "pending"
        /\ Len(transactions) = 2
        /\ task[q].pc = "failed" /\ task[q].error = "NotFoundException"

\* C29: the anomaly create_transaction stores has reviewed false and no
\* reviewed_at, and a stored anomaly has a reviewed_at only if its reviewed
\* flag is true
C29_ReviewedAtOnlyIfReviewed ==
    /\ \A p \in Evaluated :
          task[p].db_anomaly # NoneObj =>
              ~task[p].db_anomaly.reviewed /\ task[p].db_anomaly.reviewed_at = NoneNum
    /\ \A i \in 1..Len(anomalies) :
          anomalies[i].reviewed_at # NoneNum => anomalies[i].reviewed

====
